---- MODULE Spec2Model ----
(***************************************************************************)
(* BladeRunner: the agent execution loop and its control subsystems.       *)
(*                                                                         *)
(* Python strings are modelled as sequences of one-character strings, so   *)
(* that lower-casing, substring search, regular-expression search, glob    *)
(* matching, formatting and truncation are computed, not assumed.          *)
(***************************************************************************)
EXTENDS Integers, Sequences, FiniteSets, TLC

(***************************************************************************)
(* Bounds of the model (not program constants).                            *)
(***************************************************************************)
\* number of prompt_approval requests in one behaviour of SpecApproval
MaxRequests == 3

\* the most record_execution calls of a tracker run, and the most store
\* operations of a run of the three stores
MaxRecords == 4
MaxStoreOps == 3

\* the most solutions of a store that is searched, and the largest limit of a
\* search
MaxStored == 3
MaxLimit == 3

\* the most tasks of an evaluator, the most tokens recorded for a task and the
\* tokens of one record_tokens call
MaxTasks == 2
MaxTokens == 150
TokenCounts == {50, 100}

\* the most finished tasks of a history that is queried
MaxHistory == 3
\* length of the padding that makes a details string longer than the key
PadLen == 90

(***************************************************************************)
(* Strings.                                                                *)
(***************************************************************************)
UpperChars == <<"A", "B", "C", "D", "E", "F", "G", "H", "I", "J", "K", "L", "M",
                "N", "O", "P", "Q", "R", "S", "T", "U", "V", "W", "X", "Y", "Z">>

LowerChars == <<"a", "b", "c", "d", "e", "f", "g", "h", "i", "j", "k", "l", "m",
                "n", "o", "p", "q", "r", "s", "t", "u", "v", "w", "x", "y", "z">>

DigitChars == <<"0", "1", "2", "3", "4", "5", "6", "7", "8", "9">>

UpperSet == {UpperChars[i] : i \in 1..26}

WordSet == UpperSet \cup {LowerChars[i] : i \in 1..26} \cup {DigitChars[i] : i \in 1..10} \cup {"_"}

\* the lower-case letter of each upper-case letter
LowerOf == [c \in UpperSet |-> LowerChars[CHOOSE i \in 1..26 : UpperChars[i] = c]]

\* str.lower() on one character
LowerChar(c) == IF c \in UpperSet THEN LowerOf[c] ELSE c

\* str.lower()
Lower(s) == [i \in 1..Len(s) |-> LowerChar(s[i])]

\* s[i:j] with 1-based inclusive bounds, empty when out of range
Slice(s, i, j) == IF i > j THEN <<>> ELSE SubSeq(s, i, j)

\* s[:n]
Truncate(s, n) == IF Len(s) <= n THEN s ELSE SubSeq(s, 1, n)

\* sub occurs in s at position i
OccursAt(s, sub, i) ==
    /\ i >= 1
    /\ i + Len(sub) - 1 <= Len(s)
    /\ \A k \in 1..Len(sub) : s[i + k - 1] = sub[k]

\* sub in s
Contains(s, sub) == \E i \in 1..(Len(s) + 1) : OccursAt(s, sub, i)

\* s.startswith(sub)
StartsWith(s, sub) == OccursAt(s, sub, 1)

\* s.endswith(sub)
EndsWith(s, sub) == OccursAt(s, sub, Len(s) - Len(sub) + 1)

\* regular expression class \w
IsWordChar(c) == c \in WordSet

\* regular expression class \s
IsSpaceChar(c) == c \in {" ", "\t", "\n", "\r"}

\* regular expression assertion \b in front of a word character at position i
WordBoundaryBefore(s, i) == i = 1 \/ ~IsWordChar(s[i - 1])

\* re.search(r"\b<word>\s+<next>", s)
SearchWordSpacesThen(s, word, next) ==
    \E i \in 1..Len(s) :
        /\ OccursAt(s, word, i)
        /\ WordBoundaryBefore(s, i)
        /\ \E j \in (i + Len(word))..Len(s) :
               /\ \A k \in (i + Len(word))..j : IsSpaceChar(s[k])
               /\ OccursAt(s, next, j + 1)

\* re.search(r"<first>\s*<next>", s)
SearchThenOptSpaces(s, first, next) ==
    \E i \in 1..Len(s) :
        /\ OccursAt(s, first, i)
        /\ \E j \in (i + Len(first) - 1)..Len(s) :
               /\ \A k \in (i + Len(first))..j : IsSpaceChar(s[k])
               /\ OccursAt(s, next, j + 1)

\* fnmatch.fnmatch(name, pat) on POSIX: case-sensitive, "*" matches any run of
\* characters (also "/"), "?" matches one character, the others match
\* themselves; the whole name must match.  The patterns of the built-in
\* profiles use no "[" class.
RECURSIVE fnmatch(_, _)
fnmatch(name, pat) ==
    IF pat = <<>> THEN name = <<>>
    ELSE IF Head(pat) = "*"
         THEN \E k \in 0..Len(name) :
                 fnmatch(Slice(name, k + 1, Len(name)), Tail(pat))
    ELSE IF Head(pat) = "?"
         THEN name # <<>> /\ fnmatch(Tail(name), Tail(pat))
    ELSE name # <<>> /\ Head(name) = Head(pat) /\ fnmatch(Tail(name), Tail(pat))

\* str(n) for a natural number
RECURSIVE IntToStr(_)
IntToStr(n) ==
    IF n < 10 THEN <<DigitChars[n + 1]>>
    ELSE IntToStr(n \div 10) \o <<DigitChars[(n % 10) + 1]>>

\* a run of n filler characters
Pad(n) == [i \in 1..n |-> "a"]

(***************************************************************************)
(* Bash commands and file paths the model draws its inputs from.           *)
(***************************************************************************)
\* longx and longy are two critical commands that differ only after the 100th
\* character of the key
Cmd ==
    [ls        |-> <<"l", "s", " ", "-", "l", "a">>,
     rm        |-> <<"r", "m", " ", "-", "r", "f", " ", "x">>,
     RM        |-> <<"R", "M", " ", "-", "r", "f", " ", "x">>,
     sudo      |-> <<"s", "u", "d", "o", " ", "l", "s">>,
     add       |-> <<"e", "c", "h", "o", " ", "a", "d", "d">>,
     dd        |-> <<"d", "d", " ", "i", "f", "=", "x">>,
     trm       |-> <<"t", "r", "m", " ", "-", "x">>,
     null      |-> <<"c", "a", "t", " ", "x", " ", ">", ">", " ", "/", "d", "e", "v", "/", "n", "u", "l", "l">>,
     curl      |-> <<"c", "u", "r", "l", " ", "x", " ", "|", " ", "s", "h">>,
     mkfs      |-> <<"m", "k", "f", "s", " ", "x">>,
     empty     |-> <<>>,
     longx     |-> <<"r", "m", " ", "-">> \o Pad(PadLen) \o <<"x">>,
     longy     |-> <<"r", "m", " ", "-">> \o Pad(PadLen) \o <<"y">>]

FilePath ==
    [a         |-> <<"a", ".", "t", "x", "t">>,
     test      |-> <<"t", "e", "s", "t", "/", "x">>,
     testprod  |-> <<"t", "e", "s", "t", "/", "p", "r", "o", "d", "/", "x">>,
     asecret   |-> <<"a", "/", "s", "e", "c", "r", "e", "t">>,
     secret    |-> <<"s", "e", "c", "r", "e", "t">>,
     env       |-> <<"a", "/", ".", "e", "n", "v">>,
     etc       |-> <<"/", "e", "t", "c", "/", "x">>,
     pem       |-> <<"k", ".", "p", "e", "m">>,
     PEM       |-> <<"K", ".", "P", "E", "M">>,
     md        |-> <<"a", ".", "m", "d">>,
     docsprod  |-> <<"d", "o", "c", "s", "/", "p", "r", "o", "d", "u", "c", "t", "i", "o", "n", "/", "a", ".", "m", "d">>,
     empty     |-> <<>>]

Commands == {Cmd.ls, Cmd.rm, Cmd.RM, Cmd.sudo, Cmd.add, Cmd.dd, Cmd.trm,
             Cmd.null, Cmd.curl, Cmd.mkfs, Cmd.empty}

Paths == {FilePath.a, FilePath.test, FilePath.testprod, FilePath.asecret,
          FilePath.secret, FilePath.env, FilePath.etc, FilePath.pem, FilePath.PEM,
          FilePath.md, FilePath.docsprod, FilePath.empty}

(***************************************************************************)
(* permissions.py: the Permission Gate.                                    *)
(***************************************************************************)
PermissionLevel == {"allow", "deny", "ask"}

\* the profiles table of PermissionChecker._load_profile; a rule set is a
\* record that may lack the "allow" and "deny" keys
profiles ==
    [permissive |->
        [read  |-> [default |-> "allow"],
         write |-> [default |-> "allow"],
         bash  |-> [default |-> "allow"]],
     standard |->
        [read  |-> [default |-> "allow",
                    deny |-> << <<"*", "*", "/", "s", "e", "c", "r", "e", "t", "*">>,
                                <<"*", "*", "/", ".", "e", "n", "v", "*">>,
                                <<"*", "*", "/", "p", "a", "s", "s", "w", "o", "r", "d", "*">> >>],
         write |-> [default |-> "ask",
                    allow |-> << <<"t", "e", "s", "t", "/", "*", "*">>,
                                 <<"d", "o", "c", "s", "/", "*", "*">>,
                                 <<"*", ".", "m", "d">> >>,
                    deny |-> << <<"*", "*", "/", "p", "r", "o", "d", "u", "c", "t", "i", "o", "n", "/", "*", "*">>,
                                <<"*", "*", "/", "p", "r", "o", "d", "/", "*", "*">> >>],
         bash  |-> [default |-> "ask",
                    deny |-> << <<"r", "m", " ", "-", "r", "f", " ", "*">>,
                                <<"s", "u", "d", "o", " ", "*">>,
                                <<"c", "u", "r", "l", " ", "*", " ", "|", " ", "*">>,
                                <<"w", "g", "e", "t", " ", "*", " ", "|", " ", "*">> >>]],
     strict |->
        [read  |-> [default |-> "ask",
                    deny |-> << <<"*", "*", "/", "s", "e", "c", "r", "e", "t", "*">>,
                                <<"*", "*", "/", ".", "e", "n", "v", "*">> >>],
         write |-> [default |-> "deny",
                    allow |-> << <<"t", "e", "s", "t", "/", "*", "*">> >>],
         bash  |-> [default |-> "deny",
                    allow |-> << <<"l", "s", " ", "*">>,
                                 <<"c", "a", "t", " ", "*">>,
                                 <<"g", "r", "e", "p", " ", "*">>,
                                 <<"e", "c", "h", "o", " ", "*">> >>]]]

ProfileNames == {"permissive", "standard", "strict"}

Categories == {"read", "write", "bash"}

\* profiles.get(profile, profiles["standard"])
_load_profile(profile) ==
    IF profile \in DOMAIN profiles THEN profiles[profile] ELSE profiles["standard"]

\* rules.get(key, default)
RulesGet(rules, key, default) ==
    IF key \in DOMAIN rules THEN rules[key] ELSE default

\* the target matches one of the patterns of the list
MatchesAny(target, patterns) ==
    \E i \in 1..Len(patterns) : fnmatch(target, patterns[i])

\* a plausible slip: the allow list is consulted before the deny list
_check_permission_allow_first(target, rules) ==
    IF MatchesAny(target, RulesGet(rules, "allow", <<>>)) THEN "allow"
    ELSE IF MatchesAny(target, RulesGet(rules, "deny", <<>>)) THEN "deny"
    ELSE RulesGet(rules, "default", "ask")

\* PermissionChecker._check_permission
_check_permission(target, rules) ==
    IF MatchesAny(target, RulesGet(rules, "deny", <<>>)) THEN "deny"
    ELSE IF MatchesAny(target, RulesGet(rules, "allow", <<>>)) THEN "allow"
    ELSE RulesGet(rules, "default", "ask")

\* the answers of the gate for the commands and paths of the model, worked
\* out once
check_memo ==
    [profile \in ProfileNames, category \in Categories, target \in Commands \cup Paths |->
        _check_permission(target, _load_profile(profile)[category])]

\* check_file_read / check_file_write / check_bash_command of a checker that
\* was constructed with the given profile name
check(profile, category, target) ==
    IF <<profile, category, target>> \in DOMAIN check_memo
    THEN check_memo[profile, category, target]
    ELSE _check_permission(target, _load_profile(profile)[category])

check_file_read(profile, file_path) == check(profile, "read", file_path)

check_file_write(profile, file_path) == check(profile, "write", file_path)

check_bash_command(profile, command) == check(profile, "bash", command)

(***************************************************************************)
(* safety.py: the critical-operation detector.                             *)
(***************************************************************************)
rm_patterns_match(cmd_lower) ==
    \/ SearchWordSpacesThen(cmd_lower, <<"r", "m">>, <<"-">>)
    \/ SearchWordSpacesThen(cmd_lower, <<"r", "m">>, <<"/">>)
    \/ SearchThenOptSpaces(cmd_lower, <<">", ">">>,
                           <<"/", "d", "e", "v", "/", "n", "u", "l", "l">>)

dd_patterns_match(cmd_lower) ==
    \/ SearchWordSpacesThen(cmd_lower, <<"d", "d">>, <<"i", "f", "=">>)
    \/ SearchWordSpacesThen(cmd_lower, <<"d", "d">>, <<"o", "f", "=">>)

\* the grave accent character, which a TLA+ string cannot hold
Backtick == "grave"

\* the dict dangerous_bash_cmds in insertion order
dangerous_bash_cmds ==
    << [cmd |-> <<"m", "k", "f", "s">>, description |-> "Format filesystem"],
       [cmd |-> <<"f", "d", "i", "s", "k">>, description |-> "Partition disk"],
       [cmd |-> <<"p", "a", "r", "t", "e", "d">>, description |-> "Partition disk"],
       [cmd |-> <<"d", "d">>, description |-> "Low-level disk write"],
       [cmd |-> <<":", Backtick>>, description |-> "Execute shell"] >>

\* the dict critical_file_paths in insertion order
critical_file_paths ==
    << [path |-> <<"/", "e", "t", "c">>, reason |-> "System configuration"],
       [path |-> <<"/", "s", "y", "s">>, reason |-> "System kernel interface"],
       [path |-> <<"/", "p", "r", "o", "c">>, reason |-> "Process information"],
       [path |-> <<"~", "/", ".", "s", "s", "h">>, reason |-> "SSH keys"],
       [path |-> <<"~", "/", ".", "a", "w", "s">>, reason |-> "AWS credentials"],
       [path |-> <<".", "e", "n", "v">>, reason |-> "Environment variables (may contain secrets)"] >>

critical_extensions ==
    {<<".", "k", "e", "y">>, <<".", "p", "e", "m">>, <<".", "p", "1", "2">>, <<".", "p", "f", "x">>}

\* the value None where the other values are names
None == "None"

\* the value None where the other values are strings
NoneStr == <<"None">>

\* CriticalOperation.is_critical_bash: <<flag, reason>>
is_critical_bash(command) ==
    LET cmd_lower == Lower(command)
        hits == {i \in 1..Len(dangerous_bash_cmds) :
                    Contains(cmd_lower, dangerous_bash_cmds[i].cmd)}
    IN  IF rm_patterns_match(cmd_lower)
        THEN <<TRUE, "Delete files with 'rm' command">>
        ELSE IF dd_patterns_match(cmd_lower)
        THEN <<TRUE, "Disk write with 'dd' command">>
        ELSE IF hits # {}
        THEN <<TRUE, dangerous_bash_cmds[CHOOSE i \in hits : \A j \in hits : i <= j].description>>
        ELSE <<FALSE, None>>

\* CriticalOperation.is_critical_file_write: <<flag, reason>>; the path
\* substrings are looked up in the lower-cased path, the extensions in the
\* path as given
is_critical_file_write(file_path) ==
    LET path_lower == Lower(file_path)
        hits == {i \in 1..Len(critical_file_paths) :
                    Contains(path_lower, critical_file_paths[i].path)}
    IN  IF hits # {}
        THEN <<TRUE, <<"Write to sensitive path", critical_file_paths[CHOOSE i \in hits : \A j \in hits : i <= j].reason>> >>
        ELSE IF \E ext \in critical_extensions : EndsWith(file_path, ext)
        THEN <<TRUE, <<"Write to file (possible secret)",
                       CHOOSE ext \in critical_extensions : EndsWith(file_path, ext)>> >>
        ELSE <<FALSE, None>>

\* the detector's answers for the commands and paths of the model, worked
\* out once
is_critical_bash_memo == [command \in Commands |-> is_critical_bash(command)]

is_critical_file_write_memo == [file_path \in Paths |-> is_critical_file_write(file_path)]

is_critical_bash_cached(command) ==
    IF command \in Commands
    THEN is_critical_bash_memo[command]
    ELSE is_critical_bash(command)

is_critical_file_write_cached(file_path) ==
    IF file_path \in Paths
    THEN is_critical_file_write_memo[file_path]
    ELSE is_critical_file_write(file_path)

(***************************************************************************)
(* safety.py: the approval cache.                                          *)
(***************************************************************************)
\* the length the operation key is cut to
HashLen == 100

op_bash == <<"E", "x", "e", "c", "u", "t", "e", " ", "b", "a", "s", "h", " ", "c", "o", "m", "m", "a", "n", "d">>

op_write == <<"W", "r", "i", "t", "e", " ", "t", "o", " ", "c", "r", "i", "t", "i", "c", "a", "l", " ", "f", "i", "l", "e">>

\* CriticalOperation._hash_operation
_hash_operation(operation, details) ==
    Truncate(operation \o <<":">> \o details, HashLen)

\* what the operator can do at the approval prompt: "cancel" is an interrupt
\* or the end of input; an answer other than y/yes/a/always counts as "no"
ApprovalAnswers == {"yes", "always", "no", "cancel"}

\* a plausible slip: an always-approve is not remembered
prompt_approval_forgets_always(approved, denied, operation, details, answer) ==
    LET op_hash == _hash_operation(operation, details)
    IN  IF op_hash \in approved
        THEN [result |-> TRUE, prompted |-> FALSE, approved |-> approved, denied |-> denied]
        ELSE IF op_hash \in denied
        THEN [result |-> FALSE, prompted |-> FALSE, approved |-> approved, denied |-> denied]
        ELSE IF answer \in {"yes", "always"}
        THEN [result |-> TRUE, prompted |-> TRUE, approved |-> approved, denied |-> denied]
        ELSE IF answer = "no"
        THEN [result |-> FALSE, prompted |-> TRUE,
              approved |-> approved, denied |-> denied \cup {op_hash}]
        ELSE [result |-> FALSE, prompted |-> TRUE, approved |-> approved, denied |-> denied]

\* a plausible slip: a denial is not remembered
prompt_approval_forgets_denial(approved, denied, operation, details, answer) ==
    LET op_hash == _hash_operation(operation, details)
    IN  IF op_hash \in approved
        THEN [result |-> TRUE, prompted |-> FALSE, approved |-> approved, denied |-> denied]
        ELSE IF op_hash \in denied
        THEN [result |-> FALSE, prompted |-> FALSE, approved |-> approved, denied |-> denied]
        ELSE IF answer = "yes"
        THEN [result |-> TRUE, prompted |-> TRUE, approved |-> approved, denied |-> denied]
        ELSE IF answer = "always"
        THEN [result |-> TRUE, prompted |-> TRUE,
              approved |-> approved \cup {op_hash}, denied |-> denied]
        ELSE [result |-> FALSE, prompted |-> TRUE, approved |-> approved, denied |-> denied]

\* CriticalOperation.prompt_approval: the returned decision, whether the
\* operator was prompted, and the two sets afterwards; answer is what the
\* operator does if the prompt is issued
prompt_approval(approved, denied, operation, details, answer) ==
    LET op_hash == _hash_operation(operation, details)
    IN  IF op_hash \in approved
        THEN [result |-> TRUE, prompted |-> FALSE, approved |-> approved, denied |-> denied]
        ELSE IF op_hash \in denied
        THEN [result |-> FALSE, prompted |-> FALSE, approved |-> approved, denied |-> denied]
        ELSE IF answer = "yes"
        THEN [result |-> TRUE, prompted |-> TRUE, approved |-> approved, denied |-> denied]
        ELSE IF answer = "always"
        THEN [result |-> TRUE, prompted |-> TRUE,
              approved |-> approved \cup {op_hash}, denied |-> denied]
        ELSE IF answer = "no"
        THEN [result |-> FALSE, prompted |-> TRUE,
              approved |-> approved, denied |-> denied \cup {op_hash}]
        ELSE [result |-> FALSE, prompted |-> TRUE, approved |-> approved, denied |-> denied]

(***************************************************************************)
(* agent.py: constants and the strings the agent produces.                 *)
(***************************************************************************)
MAX_ITERATIONS == 50

REFLECTION_KEYWORDS ==
    << <<"e", "r", "r", "o", "r">>,
       <<"f", "a", "i", "l", "e", "d">>,
       <<"t", "r", "a", "c", "e", "b", "a", "c", "k">>,
       <<"e", "x", "c", "e", "p", "t", "i", "o", "n">>,
       <<"n", "o", "t", " ", "f", "o", "u", "n", "d">>,
       <<"p", "e", "r", "m", "i", "s", "s", "i", "o", "n", " ", "d", "e", "n", "i", "e", "d">>,
       <<"i", "n", "v", "a", "l", "i", "d">> >>

\* RETRY_CONFIG; a backoff factor is a fraction <<numerator, denominator>>
RETRY_CONFIG ==
    [Bash      |-> [max_retries |-> 3, backoff_factor |-> <<2, 1>>],
     Read      |-> [max_retries |-> 2, backoff_factor |-> <<3, 2>>],
     Write     |-> [max_retries |-> 2, backoff_factor |-> <<3, 2>>],
     WebSearch |-> [max_retries |-> 2, backoff_factor |-> <<2, 1>>]]

\* a plausible slip: the default for a tool that is not in the table retries
retry_config_default_retries(function_name) ==
    IF function_name \in DOMAIN RETRY_CONFIG
    THEN RETRY_CONFIG[function_name]
    ELSE [max_retries |-> 2, backoff_factor |-> <<1, 1>>]

\* RETRY_CONFIG.get(function_name, {"max_retries": 1, "backoff_factor": 1})
retry_config(function_name) ==
    IF function_name \in DOMAIN RETRY_CONFIG
    THEN RETRY_CONFIG[function_name]
    ELSE [max_retries |-> 1, backoff_factor |-> <<1, 1>>]

RECURSIVE Power(_, _)
Power(b, e) == IF e = 0 THEN 1 ELSE b * Power(b, e - 1)

\* a plausible slip: the wait does not grow with the attempts
wait_time_constant(backoff_factor, attempt) == backoff_factor

\* backoff_factor ** attempt, as a fraction
wait_time(backoff_factor, attempt) ==
    <<Power(backoff_factor[1], attempt), Power(backoff_factor[2], attempt)>>

\* the tool names a model response can carry; "Other" is registered nowhere
ToolNames == {"Bash", "Read", "Write", "WebSearch", "ReadImage", "Other"}

\* the tools in the registry: the core tools, the image tool and the web tools
RegisteredTools == {"Read", "Write", "Bash", "WebSearch", "FetchWebpage", "ReadImage"}

NameStr ==
    [Bash      |-> <<"B", "a", "s", "h">>,
     Read      |-> <<"R", "e", "a", "d">>,
     Write     |-> <<"W", "r", "i", "t", "e">>,
     WebSearch |-> <<"W", "e", "b", "S", "e", "a", "r", "c", "h">>,
     ReadImage |-> <<"R", "e", "a", "d", "I", "m", "a", "g", "e">>,
     Other     |-> <<"O", "t", "h", "e", "r">>]

str_invalid_json == <<"E", "r", "r", "o", "r", ":", " ", "I", "n", "v", "a", "l", "i", "d", " ", "J", "S", "O", "N", " ", "a", "r", "g", "u", "m", "e", "n", "t", "s", ":", " ">>
str_json_error == <<"E", "x", "p", "e", "c", "t", "i", "n", "g", " ", "v", "a", "l", "u", "e">>
str_critical_denied == <<"E", "r", "r", "o", "r", ":", " ", "C", "r", "i", "t", "i", "c", "a", "l", " ", "o", "p", "e", "r", "a", "t", "i", "o", "n", " ", "d", "e", "n", "i", "e", "d", " ", "b", "y", " ", "u", "s", "e", "r">>
str_critical_write_denied == <<"E", "r", "r", "o", "r", ":", " ", "C", "r", "i", "t", "i", "c", "a", "l", " ", "f", "i", "l", "e", " ", "w", "r", "i", "t", "e", " ", "d", "e", "n", "i", "e", "d", " ", "b", "y", " ", "u", "s", "e", "r">>
str_denied_read == <<"E", "r", "r", "o", "r", ":", " ", "P", "e", "r", "m", "i", "s", "s", "i", "o", "n", " ", "d", "e", "n", "i", "e", "d", " ", "t", "o", " ", "r", "e", "a", "d", " ", "'">>
str_user_denied_read == <<"E", "r", "r", "o", "r", ":", " ", "U", "s", "e", "r", " ", "d", "e", "n", "i", "e", "d", " ", "p", "e", "r", "m", "i", "s", "s", "i", "o", "n", " ", "t", "o", " ", "r", "e", "a", "d", " ", "'">>
str_denied_write == <<"E", "r", "r", "o", "r", ":", " ", "P", "e", "r", "m", "i", "s", "s", "i", "o", "n", " ", "d", "e", "n", "i", "e", "d", " ", "t", "o", " ", "w", "r", "i", "t", "e", " ", "'">>
str_user_denied_write == <<"E", "r", "r", "o", "r", ":", " ", "U", "s", "e", "r", " ", "d", "e", "n", "i", "e", "d", " ", "p", "e", "r", "m", "i", "s", "s", "i", "o", "n", " ", "t", "o", " ", "w", "r", "i", "t", "e", " ", "'">>
str_denied_bash == <<"E", "r", "r", "o", "r", ":", " ", "P", "e", "r", "m", "i", "s", "s", "i", "o", "n", " ", "d", "e", "n", "i", "e", "d", " ", "t", "o", " ", "e", "x", "e", "c", "u", "t", "e", " ", "c", "o", "m", "m", "a", "n", "d", ":", " ">>
str_user_denied_bash == <<"E", "r", "r", "o", "r", ":", " ", "U", "s", "e", "r", " ", "d", "e", "n", "i", "e", "d", " ", "p", "e", "r", "m", "i", "s", "s", "i", "o", "n", " ", "t", "o", " ", "e", "x", "e", "c", "u", "t", "e", ":", " ">>
str_unknown_tool == <<"E", "r", "r", "o", "r", ":", " ", "U", "n", "k", "n", "o", "w", "n", " ", "t", "o", "o", "l", " ", "'">>
str_retries_exhausted == <<"T", "o", "o", "l", " ", "e", "x", "e", "c", "u", "t", "i", "o", "n", " ", "f", "a", "i", "l", "e", "d", " ", "a", "f", "t", "e", "r", " ", "r", "e", "t", "r", "i", "e", "s">>
str_max_iterations == <<"W", "a", "r", "n", "i", "n", "g", ":", " ", "R", "e", "a", "c", "h", "e", "d", " ", "m", "a", "x", " ", "i", "t", "e", "r", "a", "t", "i", "o", "n", "s", " ", "(">>
str_no_response == <<"E", "r", "r", "o", "r", ":", " ", "N", "o", " ", "r", "e", "s", "p", "o", "n", "s", "e", " ", "f", "r", "o", "m", " ", "m", "o", "d", "e", "l">>
str_interrupted == <<"\n">> \o <<"I", "n", "t", "e", "r", "r", "u", "p", "t", "e", "d", " ", "b", "y", " ", "u", "s", "e", "r">>
str_error_prefix == <<"E", "r", "r", "o", "r", ":", " ">>
str_eof == <<"E", "O", "F", " ", "w", "h", "e", "n", " ", "r", "e", "a", "d", "i", "n", "g", " ", "a", " ", "l", "i", "n", "e">>
str_reflecting == <<"[", "R", "e", "f", "l", "e", "c", "t", "i", "n", "g", " ", "o", "n", " ">>
str_reflecting_end == <<" ", "e", "r", "r", "o", "r", "]">>
str_plan == <<"[", "P", "l", "a", "n", "]">>

\* what the outside world produces: tool outputs, model texts, fault messages
Out ==
    [ok        |-> <<"o", "k">>,
     error     |-> <<"E", "r", "r", "o", "r", ":", " ", "b", "o", "o", "m">>,
     failed    |-> <<"2", " ", "t", "e", "s", "t", "s", " ", "F", "A", "I", "L", "E", "D">>]

Text ==
    [prompt    |-> <<"g", "o">>,
     final     |-> <<"d", "o", "n", "e">>,
     reflection |-> <<"t", "r", "y", " ", "a", "g", "a", "i", "n">>,
     plan      |-> <<"1", ".", " ", "l", "o", "o", "k">>,
     fault     |-> <<"c", "o", "n", "n", "e", "c", "t", "i", "o", "n", " ", "r", "e", "s", "e", "t">>]

\* the error messages Agent.execute hands to the evaluator
msg_interrupted == <<"I", "n", "t", "e", "r", "r", "u", "p", "t", "e", "d", " ", "b", "y", " ", "u", "s", "e", "r">>
msg_max_iterations == <<"M", "a", "x", " ", "i", "t", "e", "r", "a", "t", "i", "o", "n", "s", " ", "r", "e", "a", "c", "h", "e", "d">>

\* x is truthy: neither None nor the empty string
Truthy(x) == x # NoneStr /\ x # <<>>

\* arguments.get(key, default)
ArgGet(arguments, key, default) ==
    IF key \in DOMAIN arguments THEN arguments[key] ELSE default

\* Agent._should_reflect_on_output
_should_reflect_on_output(config, output) ==
    IF ~config.enable_reflection
    THEN FALSE
    ELSE \E k \in 1..Len(REFLECTION_KEYWORDS) : Contains(Lower(output), REFLECTION_KEYWORDS[k])

\* ToolRegistry.execute: tool_out is what the tool's execute returns
registry_execute(name, tool_out) ==
    IF name \notin RegisteredTools
    THEN str_unknown_tool \o NameStr[name] \o <<"'">>
    ELSE tool_out

(***************************************************************************)
(* agent.py: Agent._execute_tool_with_permissions.                         *)
(***************************************************************************)
\* what the agent does with the verdict <<flag, reason>> of the detector: the
\* arguments of the approval request and the string a refusal returns
critical_request(operation, details, verdict, denial) ==
    IF verdict[1]
    THEN [flag |-> TRUE, operation |-> operation, details |-> details,
          reason |-> verdict[2], denial |-> denial]
    ELSE [flag |-> FALSE]

\* the critical-operation check of a call: whether approval is requested, and
\* the arguments of the request
critical_check(config, tool_call) ==
    IF ~config.require_approval
    THEN [flag |-> FALSE]
    ELSE IF tool_call.name = "Bash"
    THEN critical_request(op_bash, ArgGet(tool_call.arguments, "command", <<>>),
                          is_critical_bash_cached(ArgGet(tool_call.arguments, "command", <<>>)),
                          str_critical_denied)
    ELSE IF tool_call.name = "Write"
    THEN critical_request(op_write, ArgGet(tool_call.arguments, "file_path", <<>>),
                          is_critical_file_write_cached(ArgGet(tool_call.arguments, "file_path", <<>>)),
                          str_critical_write_denied)
    ELSE [flag |-> FALSE]

\* the permission check of a call: whether the gate is evaluated, its answer
\* (None when it is not), and the two strings a refusal returns
gate_check(config, tool_call) ==
    LET a == tool_call.arguments
        read_path == IF Truthy(ArgGet(a, "file_path", NoneStr))
                     THEN ArgGet(a, "file_path", NoneStr)
                     ELSE ArgGet(a, "image_path", NoneStr)
        write_path == ArgGet(a, "file_path", NoneStr)
        command == ArgGet(a, "command", NoneStr)
    IN  IF ~config.use_permissions
        THEN [checked |-> FALSE, level |-> None]
        ELSE IF tool_call.name \in {"Read", "ReadImage"} /\ Truthy(read_path)
        THEN [checked |-> TRUE, level |-> check_file_read(config.profile, read_path),
              denied |-> str_denied_read \o read_path \o <<"'">>,
              user_denied |-> str_user_denied_read \o read_path \o <<"'">>]
        ELSE IF tool_call.name = "Write" /\ Truthy(write_path)
        THEN [checked |-> TRUE, level |-> check_file_write(config.profile, write_path),
              denied |-> str_denied_write \o write_path \o <<"'">>,
              user_denied |-> str_user_denied_write \o write_path \o <<"'">>]
        ELSE IF tool_call.name = "Bash" /\ Truthy(command)
        THEN [checked |-> TRUE, level |-> check_bash_command(config.profile, command),
              denied |-> str_denied_bash \o command,
              user_denied |-> str_user_denied_bash \o command]
        ELSE [checked |-> FALSE, level |-> None]

\* a tool's execute is interrupted instead of returning a string
KeyboardInterrupt == <<"KeyboardInterrupt">>

\* what the operator can do at the permission prompt: "eof" is the end of
\* input (EOFError), "interrupt" a KeyboardInterrupt
PermAnswers == {"yes", "no", "eof", "interrupt"}

\* the record of one attempt as far as the gating goes
AttemptRecord(approval, perm, perm_answer, executed, outcome, value) ==
    [approval |-> approval, perm |-> perm, perm_answer |-> perm_answer,
     executed |-> executed, outcome |-> outcome, value |-> value]

\* what follows the gate's answer g: a denial, the permission prompt, the
\* tool's execute
gate_outcome(g, name, approval, perm_answer, tool_out) ==
    IF g.level = "deny"
    THEN AttemptRecord(approval, g.level, None, FALSE, "return", g.denied)
    ELSE IF g.level = "ask" /\ perm_answer = "no"
    THEN AttemptRecord(approval, g.level, "no", FALSE, "return", g.user_denied)
    ELSE IF g.level = "ask" /\ perm_answer = "eof"
    THEN AttemptRecord(approval, g.level, "eof", FALSE, "raise", str_eof)
    ELSE IF g.level = "ask" /\ perm_answer = "interrupt"
    THEN AttemptRecord(approval, g.level, "interrupt", FALSE, "interrupt", <<>>)
    ELSE IF tool_out = KeyboardInterrupt
    THEN AttemptRecord(approval, g.level, IF g.level = "ask" THEN "yes" ELSE None,
                       TRUE, "interrupt", <<>>)
    ELSE AttemptRecord(approval, g.level, IF g.level = "ask" THEN "yes" ELSE None,
                       TRUE, "return", registry_execute(name, tool_out))

\* a plausible slip: the gate is consulted only for a call that was not
\* approved as a critical operation
gate_and_execute_skips_gate(config, tool_call, approval, perm_answer, tool_out) ==
    gate_outcome(IF approval \in {"yes", "always", "cached_approved"}
                 THEN [checked |-> FALSE, level |-> None]
                 ELSE gate_check(config, tool_call),
                 tool_call.name, approval, perm_answer, tool_out)

\* the part of _execute_tool_with_permissions after the approval stage
gate_and_execute(config, tool_call, approval, perm_answer, tool_out) ==
    gate_outcome(gate_check(config, tool_call), tool_call.name,
                 approval, perm_answer, tool_out)

\* a plausible slip: the decision of the approval request is not looked at
approval_refused_ignored(flag, result) == FALSE

\* the approval stage ends the attempt
approval_refused(flag, result) == flag /\ ~result

\* the approval request of a call flagged by the check c
approval_stage(c, approved, denied, approval_answer) ==
    IF c.flag
    THEN prompt_approval(approved, denied, c.operation, c.details, approval_answer)
    ELSE [result |-> TRUE, prompted |-> FALSE, approved |-> approved, denied |-> denied]

\* how the approval stage ended: None without a request, the operator's
\* answer, or the cached decision
approval_of(c, ap, approval_answer) ==
    IF ~c.flag THEN None
    ELSE IF ap.prompted THEN approval_answer
    ELSE IF ap.result THEN "cached_approved"
    ELSE "cached_denied"

\* the attempt from the result ap of the approval stage on
after_approval(config, tool_call, c, ap, approval_answer, perm_answer, tool_out) ==
    [rec |-> IF approval_refused(c.flag, ap.result)
             THEN AttemptRecord(approval_of(c, ap, approval_answer),
                                None, None, FALSE, "return", c.denial)
             ELSE gate_and_execute(config, tool_call, approval_of(c, ap, approval_answer),
                                   perm_answer, tool_out),
     approved |-> ap.approved, denied |-> ap.denied]

\* the attempt from the critical-operation check c on
after_critical_check(config, tool_call, c, approved, denied, approval_answer, perm_answer, tool_out) ==
    after_approval(config, tool_call, c,
                   approval_stage(c, approved, denied, approval_answer),
                   approval_answer, perm_answer, tool_out)

\* Agent._execute_tool_with_permissions: one attempt.  approval_answer,
\* perm_answer and tool_out are what the operator and the tool do if they are
\* asked.  The result is the attempt record with the approval sets afterwards.
_execute_tool_with_permissions(config, tool_call, approved, denied, approval_answer, perm_answer, tool_out) ==
    IF ~tool_call.json_ok
    THEN [rec |-> AttemptRecord(None, None, None, FALSE, "return",
                                str_invalid_json \o str_json_error),
          approved |-> approved, denied |-> denied]
    ELSE after_critical_check(config, tool_call, critical_check(config, tool_call),
                              approved, denied, approval_answer, perm_answer, tool_out)

(***************************************************************************)
(* agent.py: Agent._execute_tool_with_retry, one pass of its loop.         *)
(***************************************************************************)
\* what the reflection request to the completion service does: a text, no
\* text (also when the request fails), or a KeyboardInterrupt
ReflectionOutcomes == {"text", "empty", "interrupt"}

\* the backoff sleep returns or is interrupted
SleepOutcomes == {"ok", "interrupt"}

\* the reflection message the executor appends
reflection_msg(function_name) ==
    [role |-> "assistant",
     content |-> str_reflecting \o NameStr[function_name] \o str_reflecting_end
                 \o <<"\n">> \o Text.reflection,
     tool_calls |-> <<>>, tool_call_id |-> <<>>]


\* the backoff did not happen
NoWait == <<>>

\* a plausible slip: the exhausted loop returns the fixed text, not the last
\* error
after_pass_fixed_text(function_name, attempt, err, reflected, sleep) ==
    LET rc == retry_config(function_name)
        more == attempt < rc.max_retries - 1
        waited == IF more THEN wait_time(rc.backoff_factor, attempt) ELSE NoWait
    IN  IF more /\ sleep = "interrupt"
        THEN [status |-> "interrupt", result |-> <<>>, last_error |-> err,
              reflected |-> reflected, waited |-> waited, sets_output |-> FALSE]
        ELSE IF more
        THEN [status |-> "again", result |-> <<>>, last_error |-> err,
              reflected |-> reflected, waited |-> waited, sets_output |-> FALSE]
        ELSE [status |-> "done", result |-> str_retries_exhausted, last_error |-> err,
              reflected |-> reflected, waited |-> waited, sets_output |-> TRUE]

\* after the body of one pass: the backoff sleep when attempts remain,
\* otherwise the loop is exhausted and the last error is returned
after_pass(function_name, attempt, err, reflected, sleep) ==
    LET rc == retry_config(function_name)
        more == attempt < rc.max_retries - 1
        waited == IF more THEN wait_time(rc.backoff_factor, attempt) ELSE NoWait
    IN  IF more /\ sleep = "interrupt"
        THEN [status |-> "interrupt", result |-> <<>>, last_error |-> err,
              reflected |-> reflected, waited |-> waited, sets_output |-> FALSE]
        ELSE IF more
        THEN [status |-> "again", result |-> <<>>, last_error |-> err,
              reflected |-> reflected, waited |-> waited, sets_output |-> FALSE]
        ELSE [status |-> "done",
              result |-> IF Truthy(err) THEN err ELSE str_retries_exhausted,
              last_error |-> err,
              reflected |-> reflected, waited |-> waited, sets_output |-> TRUE]

\* one pass of "for attempt in range(max_retries)" (or the single call made
\* when retry is disabled) around the attempt rec: refl and sleep are what the
\* reflection request and the backoff sleep do if they happen
retry_pass(config, tool_call, attempt, rec, refl, sleep) ==
    LET stop(status, result, sets) ==
            [status |-> status, result |-> result, last_error |-> NoneStr,
             reflected |-> FALSE, waited |-> NoWait, sets_output |-> sets]
    IN  IF rec.outcome = "interrupt"
        THEN stop("interrupt", <<>>, FALSE)
        ELSE IF ~config.enable_retry
        THEN IF rec.outcome = "raise"
             THEN stop("raise", rec.value, FALSE)
             ELSE stop("done", rec.value, FALSE)
        ELSE IF rec.outcome = "raise"
        THEN after_pass(tool_call.name, attempt, rec.value, FALSE, sleep)
        ELSE IF ~_should_reflect_on_output(config, rec.value)
        THEN stop("done", rec.value, TRUE)
        ELSE IF ~tool_call.json_ok
        \* json.loads(tool_call.function.arguments) raises inside the try
        THEN after_pass(tool_call.name, attempt, str_json_error, FALSE, sleep)
        ELSE IF refl = "interrupt"
        THEN stop("interrupt", <<>>, FALSE)
        ELSE after_pass(tool_call.name, attempt, rec.value, refl = "text", sleep)

(***************************************************************************)
(* evaluation.py: the task record of the evaluator.                        *)
(***************************************************************************)
\* current_execution is None: an Optional[TaskExecution] is the empty
\* sequence or the sequence of one task record
NoExecution == <<>>

\* AgentEvaluator.start_task
start_task(prompt) ==
    <<[prompt |-> prompt, success |-> FALSE, iterations |-> 0, total_tokens |-> 0,
       tools_used |-> <<>>, error_message |-> NoneStr]>>

\* AgentEvaluator.record_iteration
record_iteration(execution) ==
    IF execution # NoExecution
    THEN <<[execution[1] EXCEPT !.iterations = @ + 1]>>
    ELSE execution

\* AgentEvaluator.record_tokens, of which total is kept
record_tokens(execution, total) ==
    IF execution # NoExecution
    THEN <<[execution[1] EXCEPT !.total_tokens = @ + total]>>
    ELSE execution

\* AgentEvaluator.record_tool_use
record_tool_use(execution, tool_name) ==
    IF execution # NoExecution
    THEN <<[execution[1] EXCEPT !.tools_used = Append(@, tool_name)]>>
    ELSE execution

\* a plausible slip: the finished task is not appended to the history
end_task_drops_record(execution, history, success, error_message) ==
    <<NoExecution, history>>

\* AgentEvaluator.end_task: <<current_execution, executions_history>> afterwards
end_task(execution, history, success, error_message) ==
    IF execution = NoExecution
    THEN <<execution, history>>
    ELSE <<NoExecution,
           Append(history, [execution[1] EXCEPT !.success = success,
                                                !.error_message = error_message])>>

\* q[-n:] for an integer n: from the n-th place from the end on when n > 0,
\* and from the place -n on (the whole of q for n = 0) otherwise
LastSlice(q, n) ==
    IF n > 0
    THEN SubSeq(q, (IF Len(q) > n THEN Len(q) - n ELSE 0) + 1, Len(q))
    ELSE SubSeq(q, (IF -n < Len(q) THEN -n ELSE Len(q)) + 1, Len(q))

\* reversed(q)
Reversed(q) == [i \in 1..Len(q) |-> q[Len(q) + 1 - i]]

\* AgentEvaluator.get_recent_executions; a task record stands for its dict
get_recent_executions(history, n) ==
    Reversed(IF history # <<>> THEN LastSlice(history, n) ELSE <<>>)

(***************************************************************************)
(* semantic_memory.py: the episodic memory.                                *)
(***************************************************************************)
\* the positions of the first occurrence of sub in s, as a set of at most one
FirstOccurrence(s, sub) ==
    {i \in 1..(Len(s) + 1) :
        OccursAt(s, sub, i) /\ \A j \in 1..(i - 1) : ~OccursAt(s, sub, j)}

\* s.split(sep)[1] for an s that contains sep: what lies between the first
\* occurrence of sep and the next one
SplitSecond(s, sep) ==
    LET i == CHOOSE k \in FirstOccurrence(s, sep) : TRUE
        rest == Slice(s, i + Len(sep), Len(s))
    IN  IF FirstOccurrence(rest, sep) = {}
        THEN rest
        ELSE Slice(rest, 1, (CHOOSE k \in FirstOccurrence(rest, sep) : TRUE) - 1)

\* the maximal runs of non-space characters of s, as <<first, last>> positions
WordSpans(s) ==
    {<<i, CHOOSE j \in i..Len(s) :
              /\ \A k \in i..j : ~IsSpaceChar(s[k])
              /\ (j = Len(s) \/ IsSpaceChar(s[j + 1]))>> :
        i \in {i \in 1..Len(s) : ~IsSpaceChar(s[i]) /\ (i = 1 \/ IsSpaceChar(s[i - 1]))}}

\* set(s.split())
Words(s) == {Slice(s, w[1], w[2]) : w \in WordSpans(s)}

\* s.strip().split()[0] for an s that is not blank
FirstWord(s) ==
    LET w == CHOOSE w \in WordSpans(s) : \A v \in WordSpans(s) : w[1] <= v[1]
    IN  Slice(s, w[1], w[2])

\* intersection / union of two word sets, as the fraction <<num, den>>; 0.0,
\* the value for an empty set, is <<0, 1>>
overlap(words1, words2) ==
    IF words1 = {} \/ words2 = {}
    THEN <<0, 1>>
    ELSE <<Cardinality(words1 \cap words2), Cardinality(words1 \cup words2)>>

\* SimpleTextSimilarity.jaccard_similarity
jaccard_similarity(str1, str2) == overlap(Words(Lower(str1)), Words(Lower(str2)))

\* SimpleTextSimilarity.token_overlap
token_overlap(str1, str2) == jaccard_similarity(str1, str2)

\* a >= b for fractions with positive denominators
FracGeq(a, b) == a[1] * b[2] >= b[1] * a[2]

\* the default threshold 0.3 and the default limit of find_similar_solutions
DefaultThreshold == <<3, 10>>
DefaultLimit == 3

\* a plausible slip: the hits are cut to limit in the order of the store
find_similar_solutions_unsorted(sols, task_description, threshold, limit) ==
    LET hits == SelectSeq(sols, LAMBDA x :
                    FracGeq(token_overlap(task_description, x.task), threshold))
    IN  SubSeq(hits, 1, IF Len(hits) < limit THEN Len(hits) ELSE limit)

\* the (similarity, solution) pairs of find_similar_solutions: the similarity
\* of every stored solution to the task
similarities(sols, task_description) ==
    [i \in 1..Len(sols) |-> token_overlap(task_description, sols[i].task)]

\* similarities.sort(key=lambda x: x[0], reverse=True) over the places hits
\* (the sort is stable), then [:limit]
sorted_hits(sols, sim, hits, limit) ==
    [r \in 1..(IF Cardinality(hits) < limit THEN Cardinality(hits) ELSE limit) |->
        sols[CHOOSE i \in hits :
                Cardinality({j \in hits : \/ ~FracGeq(sim[i], sim[j])
                                          \/ (FracGeq(sim[j], sim[i]) /\ j < i)}) = r - 1]]

\* the places whose similarity >= threshold, sorted and cut
similar_of(sols, sim, threshold, limit) ==
    sorted_hits(sols, sim, {i \in 1..Len(sols) : FracGeq(sim[i], threshold)}, limit)

\* SemanticMemory.find_similar_solutions: the solutions at least as similar as
\* the threshold, by similarity descending, cut to limit
find_similar_solutions(sols, task_description, threshold, limit) ==
    similar_of(sols, similarities(sols, task_description), threshold, limit)

\* sep.join(parts)
RECURSIVE Join(_, _)
Join(parts, sep) ==
    IF parts = <<>> THEN <<>>
    ELSE IF Len(parts) = 1 THEN parts[1]
    ELSE parts[1] \o sep \o Join(Tail(parts), sep)

\* the lines get_memory_context writes for the solutions from the i-th on
RECURSIVE context_lines(_, _)
context_lines(similar, i) ==
    IF i > Len(similar) THEN <<>>
    ELSE IntToStr(i) \o <<".", " ", "T", "a", "s", "k", ":", " ">> \o similar[i].task \o <<"\n">>
         \o <<" ", " ", " ", "S", "t", "e", "p", "s", ":", " ">>
         \o Join(similar[i].steps, <<" ", "->", " ">>) \o <<"\n">>
         \o <<" ", " ", " ", "T", "o", "o", "l", "s", ":", " ">>
         \o Join(similar[i].tools_used, <<",", " ">>) \o <<"\n", "\n">>
         \o context_lines(similar, i + 1)

\* SemanticMemory.get_memory_context; the arrow character is written "->"
get_memory_context(sols, task_description) ==
    IF find_similar_solutions(sols, task_description, DefaultThreshold, DefaultLimit) = <<>>
    THEN <<>>
    ELSE <<"\n">> \o <<"[", "S", "i", "m", "i", "l", "a", "r", " ", "P", "a", "s", "t", " ",
                      "S", "o", "l", "u", "t", "i", "o", "n", "s", "]", "\n">>
         \o context_lines(find_similar_solutions(sols, task_description,
                                                 DefaultThreshold, DefaultLimit), 1)

str_tool == <<"t", "o", "o", "l", ":">>

\* SemanticMemory._extract_tools, as a set: the order of list(set) is not
\* determined by the code
_extract_tools(execution_path) ==
    {FirstWord(SplitSecond(step, str_tool)) :
        step \in {x \in {execution_path[k] : k \in 1..Len(execution_path)} :
                     Contains(Lower(x), str_tool)}}

\* the sequences that list each element of the set S once
Orderings(S) ==
    {q \in [1..Cardinality(S) -> S] : \A a \in S : \E i \in DOMAIN q : q[i] = a}

\* a plausible slip: the solution is stored whatever success is
store_solution_any_success(sols, task_description, execution_path, success, tools_used) ==
    Append(sols, [task |-> task_description, steps |-> execution_path,
                  tools_used |-> tools_used])

\* SemanticMemory.store_solution: the solution list afterwards; tools_used is
\* list(self._extract_tools(execution_path)) in the order the set happens to
\* have
store_solution(sols, task_description, execution_path, success, tools_used) ==
    IF ~success
    THEN sols
    ELSE Append(sols, [task |-> task_description, steps |-> execution_path,
                       tools_used |-> tools_used])

\* the names of the arguments of the tool calls, as strings
KeyStr ==
    [command    |-> <<"c", "o", "m", "m", "a", "n", "d">>,
     file_path  |-> <<"f", "i", "l", "e", "_", "p", "a", "t", "h">>,
     image_path |-> <<"i", "m", "a", "g", "e", "_", "p", "a", "t", "h">>,
     query      |-> <<"q", "u", "e", "r", "y">>]

\* the step Agent._execute_tool_with_permissions appends to
\* current_execution_path: f"tool:{function_name}({', '.join(arguments.keys())})";
\* the calls of the model have one argument
execution_step(tool_call) ==
    str_tool \o NameStr[tool_call.name] \o <<"(">>
    \o Join([i \in 1..1 |-> KeyStr[CHOOSE k \in DOMAIN tool_call.arguments : TRUE]], <<",", " ">>)
    \o <<")">>

(***************************************************************************)
(* tool_tracker.py: the tool statistics and their file.                    *)
(***************************************************************************)
RECURSIVE GCD(_, _)
GCD(a, b) == IF b = 0 THEN a ELSE GCD(b, a % b)

\* the float n / d for naturals n <= d, d > 0: floats are written as reduced
\* fractions, and two quotients are the same float exactly when they are the
\* same fraction
Float(n, d) == <<n \div GCD(n, d), d \div GCD(n, d)>>

\* int(s) for a string of digits
RECURSIVE StrToInt(_)
StrToInt(s) ==
    IF s = <<>> THEN 0
    ELSE 10 * StrToInt(SubSeq(s, 1, Len(s) - 1))
         + (CHOOSE d \in 0..9 : DigitChars[d + 1] = s[Len(s)])

\* json.dumps of a string: quoted, with quotes and backslashes escaped
RECURSIVE json_escape(_)
json_escape(s) ==
    IF s = <<>> THEN <<>>
    ELSE (IF Head(s) \in {"\"", "\\"} THEN <<"\\", Head(s)>> ELSE <<Head(s)>>)
         \o json_escape(Tail(s))

\* the characters of an escaped string body
RECURSIVE json_unescape(_)
json_unescape(t) ==
    IF t = <<>> THEN <<>>
    ELSE IF Head(t) = "\\" /\ Len(t) >= 2 THEN <<t[2]>> \o json_unescape(Tail(Tail(t)))
    ELSE <<Head(t)>> \o json_unescape(Tail(t))

str_null == <<"n", "u", "l", "l">>

\* json.dumps of an Optional[str], and json.loads of the text
json_dumps_str(s) ==
    IF s = NoneStr THEN str_null ELSE <<"\"">> \o json_escape(s) \o <<"\"">>

json_loads_str(t) ==
    IF t = str_null THEN NoneStr ELSE json_unescape(SubSeq(t, 2, Len(t) - 1))

\* repr of a float and float() of the text; the text of the fraction stands
\* for the shortest decimal that reads back as the same float
float_repr(f) == IntToStr(f[1]) \o <<"/">> \o IntToStr(f[2])

float_parse(t) ==
    LET i == CHOOSE k \in 1..Len(t) : t[k] = "/"
    IN  <<StrToInt(SubSeq(t, 1, i - 1)), StrToInt(SubSeq(t, i + 1, Len(t)))>>

\* json.dump(self.stats): the text of every value, entry by entry in the
\* order of the dictionary
json_dump(stats) ==
    [i \in DOMAIN stats |->
        [tool |-> json_dumps_str(stats[i].tool),
         total |-> IntToStr(stats[i].total),
         successful |-> IntToStr(stats[i].successful),
         failed |-> IntToStr(stats[i].failed),
         success_rate |-> float_repr(stats[i].success_rate),
         last_used |-> json_dumps_str(stats[i].last_used),
         errors |-> [j \in DOMAIN stats[i].errors |->
                        [type |-> json_dumps_str(stats[i].errors[j].type),
                         count |-> IntToStr(stats[i].errors[j].count)]]]]

\* json.load of such a text
json_load(text) ==
    [i \in DOMAIN text |->
        [tool |-> json_loads_str(text[i].tool),
         total |-> StrToInt(text[i].total),
         successful |-> StrToInt(text[i].successful),
         failed |-> StrToInt(text[i].failed),
         success_rate |-> float_parse(text[i].success_rate),
         last_used |-> json_loads_str(text[i].last_used),
         errors |-> [j \in DOMAIN text[i].errors |->
                        [type |-> json_loads_str(text[i].errors[j].type),
                         count |-> StrToInt(text[i].errors[j].count)]]]]

\* a file: missing, whole, or cut off by a write that failed after open()
NoFile == [state |-> "missing", text |-> <<>>]

\* what a write does: it succeeds, open() raises, or the dump raises after
\* open() has truncated the file
WriteOutcomes == {"ok", "open_fails", "dump_fails"}

\* a plausible slip: the file is written only when there is none yet
_save_stats_when_missing(stats, file, write) ==
    IF file.state # "missing"
    THEN [file |-> file, raised |-> None]
    ELSE IF write = "ok"
    THEN [file |-> [state |-> "whole", text |-> json_dump(stats)], raised |-> None]
    ELSE [file |-> file, raised |-> None]

\* ToolTracker._save_stats: the file afterwards and what the call raises
_save_stats(stats, file, write) ==
    IF write = "ok"
    THEN [file |-> [state |-> "whole", text |-> json_dump(stats)], raised |-> None]
    ELSE IF write = "open_fails"
    THEN [file |-> file, raised |-> None]
    ELSE [file |-> [state |-> "cut", text |-> <<>>], raised |-> None]

\* ToolTracker._load_stats: a file that is cut off does not parse
_load_stats(file) ==
    IF file.state = "whole" THEN json_load(file.text) ELSE <<>>

\* the dictionary stats with an entry for tool_name: a dictionary is the
\* sequence of its items in insertion order
with_entry(stats, tool_name) ==
    IF \E i \in DOMAIN stats : stats[i].tool = tool_name
    THEN stats
    ELSE Append(stats, [tool |-> tool_name, total |-> 0, successful |-> 0, failed |-> 0,
                        success_rate |-> Float(0, 1), last_used |-> NoneStr,
                        errors |-> <<>>])

\* error.split(":")[0]
error_type(error) ==
    IF \E k \in 1..Len(error) : error[k] = ":"
    THEN SubSeq(error, 1, (CHOOSE k \in 1..Len(error) :
                              error[k] = ":" /\ \A j \in 1..(k - 1) : error[j] # ":") - 1)
    ELSE error

\* errors[t] = errors.get(t, 0) + 1
count_error(errors, t) ==
    IF \E j \in DOMAIN errors : errors[j].type = t
    THEN [j \in DOMAIN errors |->
             IF errors[j].type = t THEN [errors[j] EXCEPT !.count = @ + 1] ELSE errors[j]]
    ELSE Append(errors, [type |-> t, count |-> 1])

\* a plausible slip: the success rate is computed before the counters are
\* updated
count_execution_stale_rate(entry, success, error, now) ==
    [entry EXCEPT
        !.total = @ + 1,
        !.last_used = now,
        !.successful = IF success THEN @ + 1 ELSE @,
        !.failed = IF success THEN @ ELSE @ + 1,
        !.errors = IF ~success /\ Truthy(error) THEN count_error(@, error_type(error)) ELSE @,
        !.success_rate = IF entry.total = 0 THEN Float(0, 1)
                         ELSE Float(entry.successful, entry.total)]

\* the entry of a tool after one more execution
count_execution(entry, success, error, now) ==
    [entry EXCEPT
        !.total = @ + 1,
        !.last_used = now,
        !.successful = IF success THEN @ + 1 ELSE @,
        !.failed = IF success THEN @ ELSE @ + 1,
        !.errors = IF ~success /\ Truthy(error) THEN count_error(@, error_type(error)) ELSE @,
        !.success_rate = Float(entry.successful + (IF success THEN 1 ELSE 0), entry.total + 1)]

\* the counters of record_execution: with is the dictionary with an entry for
\* the tool
count_in(with, tool_name, success, error, now) ==
    [i \in DOMAIN with |->
        IF with[i].tool = tool_name
        THEN count_execution(with[i], success, error, now)
        ELSE with[i]]

\* the end of record_execution: counted is the dictionary with the new
\* counters, save what _save_stats did with it
saved(counted, save) == [stats |-> counted, file |-> save.file, raised |-> save.raised]

\* ToolTracker.record_execution: the statistics and the file afterwards and
\* what the call raises
record_execution(stats, file, tool_name, success, error, now, write) ==
    saved(count_in(with_entry(stats, tool_name), tool_name, success, error, now),
          _save_stats(count_in(with_entry(stats, tool_name), tool_name, success, error, now),
                      file, write))

\* datetime.now().isoformat() at the n-th operation
Timestamp(n) == <<"T">> \o IntToStr(n)

\* result.startswith("Error:")
IsErrorString(result) == StartsWith(result, <<"E", "r", "r", "o", "r", ":">>)

\* the tracking of Agent._execute_tool_with_permissions, with tool tracking
\* enabled, for the attempt rec: an execution of the tool that returned is
\* recorded, as a success unless the result starts with "Error:"
track_execution(stats, file, function_name, rec, now) ==
    IF rec.executed /\ rec.outcome = "return"
    THEN record_execution(stats, file, function_name, ~IsErrorString(rec.value),
                          IF IsErrorString(rec.value) THEN rec.value ELSE NoneStr, now, "ok")
    ELSE [stats |-> stats, file |-> file, raised |-> None]

\* the fewest executions of a ranked tool
MinRanked == 3

\* a plausible slip: the list is sorted ascending and reversed, which turns
\* the order of equal rates around
get_reliability_ranking_reversed(stats) ==
    LET tools == {i \in DOMAIN stats : stats[i].total >= MinRanked}
        rate(i) == stats[i].success_rate
        before(i, j) == \/ ~FracGeq(rate(j), rate(i))
                        \/ (rate(i) = rate(j) /\ i > j)
        ranked == [r \in 1..Cardinality(tools) |->
                      CHOOSE i \in tools : Cardinality({j \in tools : before(j, i)}) = r - 1]
    IN  [r \in 1..Cardinality(tools) |->
            [tool |-> stats[ranked[r]].tool, success_rate |-> rate(ranked[r]),
             total |-> stats[ranked[r]].total, successful |-> stats[ranked[r]].successful]]

\* ToolTracker.get_reliability_ranking: the tools with at least three
\* executions by success rate descending; sorted() is stable
get_reliability_ranking(stats) ==
    LET tools == {i \in DOMAIN stats : stats[i].total >= MinRanked}
        rate(i) == stats[i].success_rate
        before(i, j) == \/ ~FracGeq(rate(j), rate(i))
                        \/ (rate(i) = rate(j) /\ i < j)
        ranked == [r \in 1..Cardinality(tools) |->
                      CHOOSE i \in tools : Cardinality({j \in tools : before(j, i)}) = r - 1]
    IN  [r \in 1..Cardinality(tools) |->
            [tool |-> stats[ranked[r]].tool, success_rate |-> rate(ranked[r]),
             total |-> stats[ranked[r]].total, successful |-> stats[ranked[r]].successful]]

(***************************************************************************)
(* The solutions log and the metrics files.                                *)
(***************************************************************************)
\* json.dumps(solution): the text of every value
solution_line(solution) ==
    [task |-> json_dumps_str(solution.task),
     steps |-> [i \in DOMAIN solution.steps |-> json_dumps_str(solution.steps[i])],
     tools_used |-> [i \in DOMAIN solution.tools_used |->
                        json_dumps_str(solution.tools_used[i])]]

\* what the append of a line does: it succeeds or it raises
AppendOutcomes == {"ok", "fails"}

\* a plausible slip: the failure of the append reaches the caller
_persist_solution_propagates(lines, solution, write) ==
    [file |-> IF write = "ok" THEN Append(lines, solution_line(solution)) ELSE lines,
     raised |-> IF write = "ok" THEN None ELSE "OSError"]

\* SemanticMemory._persist_solution: the lines of solutions.jsonl afterwards
\* and what the call raises
_persist_solution(lines, solution, write) ==
    [file |-> IF write = "ok" THEN Append(lines, solution_line(solution)) ELSE lines,
     raised |-> None]

\* json.dumps(self.current_execution.to_dict())
execution_line(execution) ==
    [prompt |-> json_dumps_str(execution.prompt),
     success |-> IF execution.success THEN "true" ELSE "false",
     iterations |-> IntToStr(execution.iterations),
     total_tokens |-> IntToStr(execution.total_tokens),
     tools_used |-> [i \in DOMAIN execution.tools_used |->
                        json_dumps_str(NameStr[execution.tools_used[i]])],
     error_message |-> json_dumps_str(execution.error_message)]

RECURSIVE total_iterations(_)
total_iterations(history) ==
    IF history = <<>> THEN 0
    ELSE history[1].iterations + total_iterations(Tail(history))

RECURSIVE total_tokens(_)
total_tokens(history) ==
    IF history = <<>> THEN 0
    ELSE history[1].total_tokens + total_tokens(Tail(history))

\* a plausible slip: the tokens of the summary are those of the last task
summary_of_last_tokens(history) ==
    [total_tasks |-> Len(history),
     successful_tasks |-> Cardinality({i \in DOMAIN history : history[i].success}),
     failed_tasks |-> Len(history) - Cardinality({i \in DOMAIN history : history[i].success}),
     success_rate |-> Float(Cardinality({i \in DOMAIN history : history[i].success}),
                            Len(history)),
     avg_iterations_per_task |-> Float(total_iterations(history), Len(history)),
     total_tokens_used |-> history[Len(history)].total_tokens,
     avg_tokens_per_task |-> Float(history[Len(history)].total_tokens, Len(history))]

\* the summary AgentEvaluator._update_summary computes from the history
summary_of(history) ==
    [total_tasks |-> Len(history),
     successful_tasks |-> Cardinality({i \in DOMAIN history : history[i].success}),
     failed_tasks |-> Len(history) - Cardinality({i \in DOMAIN history : history[i].success}),
     success_rate |-> Float(Cardinality({i \in DOMAIN history : history[i].success}),
                            Len(history)),
     avg_iterations_per_task |-> Float(total_iterations(history), Len(history)),
     total_tokens_used |-> total_tokens(history),
     avg_tokens_per_task |-> Float(total_tokens(history), Len(history))]

\* json.dump(summary)
summary_text(summary) ==
    [total_tasks |-> IntToStr(summary.total_tasks),
     successful_tasks |-> IntToStr(summary.successful_tasks),
     failed_tasks |-> IntToStr(summary.failed_tasks),
     success_rate |-> float_repr(summary.success_rate),
     avg_iterations_per_task |-> float_repr(summary.avg_iterations_per_task),
     total_tokens_used |-> IntToStr(summary.total_tokens_used),
     avg_tokens_per_task |-> float_repr(summary.avg_tokens_per_task)]

\* AgentEvaluator._update_summary: the summary file afterwards; the write of
\* the summary is inside a try block
_update_summary(history, file, write) ==
    IF history = <<>> THEN file
    ELSE IF write = "ok" THEN [state |-> "whole", text |-> summary_text(summary_of(history))]
    ELSE IF write = "open_fails" THEN file
    ELSE [state |-> "cut", text |-> <<>>]

\* the metrics files before anything was written
NoMetrics == [executions |-> <<>>, summary |-> NoFile]

\* the files after AgentEvaluator.end_task and what the call raises:
\* history_after is the history end_task leaves, append and write are what
\* the append of the line and the write of the summary do
end_task_files(execution, success, error_message, history_after, files, append, write) ==
    IF execution = NoExecution
    THEN [files |-> files, raised |-> None]
    ELSE [files |-> [executions |->
                        IF append = "ok"
                        THEN Append(files.executions,
                                    execution_line([execution[1] EXCEPT
                                                       !.success = success,
                                                       !.error_message = error_message]))
                        ELSE files.executions,
                     summary |-> _update_summary(history_after, files.summary, write)],
          raised |-> None]

(***************************************************************************)
(* sessions.py: the session log.                                           *)
(***************************************************************************)
\* json.dumps of a message and json.loads of its text: the text of the
\* content
message_json(message) == [message EXCEPT !.content = json_dumps_str(@)]

message_of(text) == [text EXCEPT !.content = json_loads_str(@)]

\* SessionManager.create_session: the log holds the line of the session start
create_session == <<[type |-> "session_start", content |-> None]>>

\* SessionManager.save_message: the log afterwards
save_message(log, message) ==
    Append(log, [type |-> "message", content |-> message_json(message)])

\* SessionManager.load_session for a log that can be read
load_session(log) ==
    [i \in 1..Cardinality({k \in DOMAIN log : log[k].type = "message"}) |->
        message_of(log[CHOOSE k \in DOMAIN log :
                          /\ log[k].type = "message"
                          /\ Cardinality({j \in 1..k : log[j].type = "message"}) = i].content)]

(***************************************************************************)
(* State.                                                                  *)
(***************************************************************************)
VARIABLES
    \* CriticalOperation.approved_operations, CriticalOperation.denied_operations
    approved_operations, denied_operations,
    \* the approval requests made so far, in order: the pair asked about,
    \* whether the operator was prompted, the answer and the decision
    approval_log,
    \* the inputs and the result of one Permission Gate evaluation
    gate_in, gate_out,
    \* the Agent's configuration: enable_retry, enable_reflection,
    \* require_approval, use_permissions, the permission profile,
    \* enable_evaluation
    config,
    \* where Agent.execute is: "idle" before the call, "request" at the top of
    \* the loop, "dispatch" inside the loop over the tool calls, "returned"
    pc,
    \* how execute ended and the string it returned
    outcome, returned,
    \* the number of passes of the main loop begun (one model request each)
    iteration,
    \* Agent.messages
    messages,
    \* the tool calls of the current response that are not finished yet
    pending,
    \* the retryable executor's current or last call: the call, the number of
    \* attempts made, the last attempt, what the operator did in the attempts
    \* before the last one, where the call stands and its result
    retry,
    \* Agent.last_tool_output
    last_tool_output,
    \* AgentEvaluator.current_execution, AgentEvaluator.executions_history
    current_execution, executions_history,
    \* Agent.current_execution_path, SemanticMemory.solutions
    current_execution_path, solutions,
    \* the lines of the solutions log; the metrics files: the lines of the
    \* executions log and the summary file
    memory_file, metrics_files,
    \* the lines of the session log
    session_log,
    \* what the planning request of execute did
    plan_request,
    \* ToolTracker.stats and the statistics file
    tool_stats, stats_file,
    \* the stats of a second ToolTracker opened on the same directory
    other_stats,
    \* for each tool, the record_execution calls made so far: successful, failed
    recorded,
    \* the arguments and the result of one call of a query operation
    \* (find_similar_solutions, get_recent_executions)
    query_in, query_out,
    \* the last call of a store operation: which operation, whether a write
    \* failed in it, and what the call raised
    store_call,
    \* the behaviour of the completion service in this run: in a "free" run
    \* its first response carries tool calls of any kind and its second
    \* response ends the run; in a "steady" run every response can carry the
    \* same ungated tool call, which succeeds
    scenario

approval_vars == <<approved_operations, denied_operations, approval_log>>

gate_vars == <<gate_in, gate_out>>

agent_vars == <<config, pc, outcome, returned, iteration, messages, pending, retry,
                last_tool_output, current_execution, executions_history,
                current_execution_path, solutions, memory_file, metrics_files,
                session_log, plan_request, scenario>>

tracker_vars == <<tool_stats, other_stats, stats_file, recorded, store_call>>

query_vars == <<query_in, query_out>>

vars == <<approved_operations, denied_operations, approval_log, gate_in, gate_out,
          config, pc, outcome, returned, iteration, messages, pending, retry,
          last_tool_output, current_execution, executions_history,
          current_execution_path, solutions, memory_file, metrics_files, session_log,
          plan_request, tool_stats, other_stats, stats_file, recorded, store_call, query_in,
          query_out, scenario>>

\* SemanticMemory.store_solution: the solutions and the solutions log
\* afterwards
StoreSolution(task_description, execution_path, success, tools_used, write) ==
    /\ solutions' = store_solution(solutions, task_description, execution_path,
                                   success, tools_used)
    /\ memory_file' =
          IF ~success THEN memory_file
          ELSE _persist_solution(memory_file,
                                 [task |-> task_description, steps |-> execution_path,
                                  tools_used |-> tools_used], write).file

\* AgentEvaluator.end_task on the task record execution: the evaluator's
\* fields and the metrics files afterwards
EvaluatorEndTask(execution, success, error_message, append, write) ==
    /\ current_execution' = end_task(execution, executions_history, success, error_message)[1]
    /\ executions_history' = end_task(execution, executions_history, success, error_message)[2]
    /\ metrics_files' =
          end_task_files(execution, success, error_message,
                         end_task(execution, executions_history, success, error_message)[2],
                         metrics_files, append, write).files

(***************************************************************************)
(* Bounds of the agent's environment.                                      *)
(***************************************************************************)
DefaultConfig ==
    [enable_retry |-> TRUE, enable_reflection |-> TRUE, require_approval |-> TRUE,
     use_permissions |-> TRUE, profile |-> "standard", enable_evaluation |-> TRUE,
     enable_planning |-> TRUE, enable_memory |-> TRUE, session |-> TRUE]

\* the configuration without retry, approval and permissions
PlainConfig ==
    [DefaultConfig EXCEPT !.enable_retry = FALSE, !.enable_reflection = FALSE,
                          !.require_approval = FALSE, !.use_permissions = FALSE]

\* planning, memory and the session are switched off in the plain
\* configuration only
FeatureConfigs ==
    {[PlainConfig EXCEPT !.enable_planning = f[1], !.enable_memory = f[2],
                         !.session = f[3]] : f \in BOOLEAN \X BOOLEAN \X BOOLEAN}

\* the configurations an Agent is constructed with; without permissions there
\* is no permission checker and the profile plays no role; session says that
\* there are a session manager and a session id
Configs ==
    {c \in [enable_retry : BOOLEAN, enable_reflection : BOOLEAN,
            require_approval : BOOLEAN, use_permissions : BOOLEAN,
            profile : ProfileNames, enable_evaluation : {TRUE},
            enable_planning : {TRUE}, enable_memory : {TRUE}, session : {TRUE}] :
        ~c.use_permissions => c.profile = "standard"}
    \cup FeatureConfigs

ToolCall(name, arguments) == [name |-> name, json_ok |-> TRUE, arguments |-> arguments]

\* a solution an earlier run has stored for the same task
OldSolution ==
    [task |-> Text.prompt, steps |-> <<execution_step(ToolCall("WebSearch", [query |-> Text.prompt]))>>,
     tools_used |-> <<NameStr.WebSearch \o <<"(">> \o KeyStr.query \o <<")">>>>]

\* the tools of the record_execution calls
TrackedTools == {"Read", "Bash"}

\* the episodic memory at the start of a run
SolutionStores == {<<>>, <<OldSolution>>}

\* the tool calls of a "free" run
FreeCalls ==
    {ToolCall("Bash", [command |-> Cmd.rm]),
     ToolCall("Bash", [command |-> Cmd.RM]),
     ToolCall("Bash", [command |-> Cmd.ls]),
     ToolCall("Write", [file_path |-> FilePath.env]),
     ToolCall("Write", [file_path |-> FilePath.testprod]),
     ToolCall("Read", [file_path |-> FilePath.asecret]),
     ToolCall("Read", [file_path |-> FilePath.a]),
     ToolCall("ReadImage", [image_path |-> FilePath.asecret]),
     ToolCall("WebSearch", [query |-> Text.prompt]),
     ToolCall("Other", [query |-> Text.prompt]),
     [name |-> "Bash", json_ok |-> FALSE, arguments |-> <<>>]}

\* the one call of a "steady" run, in which the completion service asks for
\* the same ungated tool again and again and the tool succeeds
SteadyCall == ToolCall("WebSearch", [query |-> Text.prompt])

\* what a tool's execute does: a string it returns, or a KeyboardInterrupt
ToolOutcomes == {Out.ok, Out.error, Out.failed, KeyboardInterrupt}

\* the responses with tool calls of a "free" run: one call of any kind, or
\* two calls in a row
FreeResponses ==
    {<<c>> : c \in FreeCalls}
    \cup {<<ToolCall("Other", [query |-> Text.prompt]), SteadyCall>>}

\* the responses with tool calls the completion service can give
Responses ==
    IF scenario = "steady" THEN {<<SteadyCall>>}
    ELSE IF iteration = 0 THEN FreeResponses
    ELSE {}

NoRetry == [call |-> None, attempts |-> 0, last |-> None, earlier |-> {},
            status |-> "none", result |-> NoneStr]

\* what the operator did in an attempt, as far as later attempts of the same
\* call are concerned
OperatorEvents(entry) ==
    (IF entry.perm_answer = "no" THEN {"permission_no"} ELSE {})
    \cup (IF entry.approval = "cancel" THEN {"approval_cancel"} ELSE {})

Message(role, content) ==
    [role |-> role, content |-> content, tool_calls |-> <<>>, tool_call_id |-> <<>>]

\* a new agent: no message and no tool output yet
NoConversation == [messages |-> <<>>, last_tool_output |-> <<>>]

\* the conversation of an agent after a task with one tool call
OneTaskConversation ==
    [messages |->
        <<Message("user", Text.prompt),
          [role |-> "assistant", content |-> NoneStr, tool_calls |-> <<<<1, 1>>>>,
           tool_call_id |-> <<>>],
          [role |-> "tool", content |-> Out.ok, tool_calls |-> <<>>, tool_call_id |-> <<1, 1>>],
          Message("assistant", Text.final)>>,
     last_tool_output |-> Out.ok]

\* the agent between two tasks, with the conversation it has so far
InitConversed(configs, stores, histories, conversation) ==
    /\ config \in configs
    /\ current_execution_path = <<>>
    /\ solutions \in stores
    /\ memory_file = [i \in DOMAIN solutions |-> solution_line(solutions[i])]
    /\ executions_history \in histories
    /\ metrics_files =
          [executions |-> [i \in DOMAIN executions_history |->
                              execution_line(executions_history[i])],
           summary |-> _update_summary(executions_history, NoFile, "ok")]
    /\ pc = "idle"
    /\ outcome = None
    /\ returned = NoneStr
    /\ iteration = 0
    /\ messages = conversation.messages
    /\ pending = <<>>
    /\ retry = NoRetry
    /\ last_tool_output = conversation.last_tool_output
    /\ current_execution = NoExecution
    /\ session_log = IF config.session THEN create_session ELSE <<>>
    /\ plan_request = None
    /\ scenario = None

\* the agent after construction
InitAgent(configs, stores, histories) ==
    InitConversed(configs, stores, histories, NoConversation)

(***************************************************************************)
(* Agent.execute.                                                          *)
(***************************************************************************)
\* a plausible slip: the new messages replace the conversation
messages_replaced(conversation, new) == new

\* self.messages.append(message) for each of the new messages
messages_append(conversation, new) == conversation \o new

\* a plausible slip: the run is stored whether or not it used a tool
stores_solution_any_path(cfg, execution_path) == cfg.enable_memory

\* execute stores the run in the episodic memory when it returns the final
\* response: self.enable_memory and self.current_execution_path
stores_solution(cfg, execution_path) == cfg.enable_memory /\ execution_path # <<>>

\* a tracker constructed on an empty directory
InitTracker ==
    /\ tool_stats = _load_stats(NoFile)
    /\ other_stats = _load_stats(NoFile)
    /\ stats_file = NoFile
    /\ recorded = [t \in TrackedTools |-> [successful |-> 0, failed |-> 0]]
    /\ store_call = [op |-> None, failed |-> FALSE, raised |-> None]

\* no query operation is called
NoQuery ==
    /\ query_in = [op |-> None]
    /\ query_out = [done |-> FALSE, value |-> <<>>]

\* a plausible slip: the user message is appended before the context
preloop_messages_user_first(plan, memory_context, prompt) ==
    <<Message("user", prompt)>>
    \o (IF Truthy(plan)
        THEN <<Message("assistant", str_plan \o <<"\n">> \o plan)>>
        ELSE <<>>)
    \o (IF Truthy(memory_context) THEN <<Message("assistant", memory_context)>> ELSE <<>>)

\* the messages execute appends before the main loop: the plan and the memory
\* context, where there is one, and the user message
preloop_messages(plan, memory_context, prompt) ==
    (IF Truthy(plan)
     THEN <<Message("assistant", str_plan \o <<"\n">> \o plan)>>
     ELSE <<>>)
    \o (IF Truthy(memory_context) THEN <<Message("assistant", memory_context)>> ELSE <<>>)
    \o <<Message("user", prompt)>>

\* Agent._create_plan: the plan, given what the planning request does; there
\* is no request when planning is disabled, and a request that raises is
\* caught
_create_plan(cfg, request) ==
    IF ~cfg.enable_planning THEN <<>>
    ELSE IF request = "text" THEN Text.plan
    ELSE <<>>

\* what can go wrong before the main loop: the operator interrupts the
\* planning request, or the write of the user message to the session log
\* fails
PreloopFaults(cfg) ==
    {None}
    \cup (IF cfg.enable_planning THEN {"KeyboardInterrupt"} ELSE {})
    \cup (IF cfg.session THEN {"OSError"} ELSE {})

\* what the planning request can do: nothing where there is none, a text, an
\* empty answer, an exception or a KeyboardInterrupt; the request of a "free"
\* run gives an empty answer
PlanRequests(cfg, sc, fault) ==
    IF ~cfg.enable_planning THEN {None}
    ELSE IF fault = "KeyboardInterrupt" THEN {"interrupt"}
    ELSE IF sc = "steady" THEN {"text", "empty", "raises"}
    ELSE {"empty"}

\* execute up to the main loop: the task is started, the memory context is
\* looked up, the execution path is reset, and the plan, if the planning
\* request produced one, the memory context and the user message are
\* appended; the planning request of a "free" run produces no plan.  Nothing
\* here is inside a try block: a fault leaves execute as an exception.
StartExecute ==
    /\ pc = "idle"
    /\ current_execution' = IF config.enable_evaluation
                            THEN start_task(Text.prompt)
                            ELSE current_execution
    /\ current_execution_path' = <<>>
    /\ \E sc \in {"free", "steady"}, fault \in PreloopFaults(config) :
       \E request \in PlanRequests(config, sc, fault) :
          /\ plan_request' = request
          /\ scenario' = sc
          /\ messages' =
                IF fault = "KeyboardInterrupt" THEN messages
                ELSE messages_append(messages, preloop_messages(_create_plan(config, request),
                        IF config.enable_memory
                        THEN get_memory_context(solutions, Text.prompt) ELSE <<>>,
                        Text.prompt))
          /\ session_log' =
                IF config.session /\ fault = None
                THEN save_message(session_log, Message("user", Text.prompt))
                ELSE session_log
          /\ pc' = IF fault = None THEN "request" ELSE "raised"
          /\ outcome' = fault
    /\ UNCHANGED <<config, returned, iteration, pending, retry, solutions,
                   last_tool_output, executions_history, memory_file, metrics_files,
                   approval_vars, gate_vars, query_vars, tracker_vars>>

\* a plausible slip: the fault is swallowed and the loop goes on
handle_exception_continues(execution, history, message) ==
    [pc |-> "request", outcome |-> "error", returned |-> NoneStr,
     ended |-> <<execution, history>>]

\* the handler "except Exception as e" of the main loop: the task is ended
\* as a failure and execute returns f"Error: {str(e)}"
handle_exception(execution, history, message) ==
    [pc |-> "returned", outcome |-> "error", returned |-> str_error_prefix \o message,
     ended |-> end_task(execution, history, FALSE, message)]

\* a plausible slip: the tool-result message does not name its call
tool_msg_without_id(tool_call, result) ==
    [role |-> "tool", content |-> result, tool_calls |-> <<>>, tool_call_id |-> <<>>]

\* the tool-result message execute appends for a call
tool_msg(tool_call, result) ==
    [role |-> "tool", content |-> result, tool_calls |-> <<>>,
     tool_call_id |-> tool_call.id]

\* a plausible slip: the tool-result message is appended also when the pass
\* was interrupted
pass_messages_after_interrupt(tool_call, p) ==
    (IF p.reflected THEN <<reflection_msg(tool_call.name)>> ELSE <<>>)
    \o (IF p.status \in {"done", "interrupt"} THEN <<tool_msg(tool_call, p.result)>> ELSE <<>>)

\* the messages appended in one pass of the retry loop that ends as p says:
\* the reflection, if the model gave one, and the tool-result message when
\* the executor returned
pass_messages(tool_call, p) ==
    (IF p.reflected THEN <<reflection_msg(tool_call.name)>> ELSE <<>>)
    \o (IF p.status = "done" THEN <<tool_msg(tool_call, p.result)>> ELSE <<>>)

\* one pass of the main loop up to the tool calls: the iteration is recorded,
\* the completion service is asked and the assistant message is appended
ModelRequest ==
    /\ pc = "request"
    /\ iteration < MAX_ITERATIONS
    /\ iteration' = iteration + 1
    /\ LET counted == IF config.enable_evaluation
                      THEN record_iteration(current_execution)
                      ELSE current_execution
       IN
       \/ \* the request raises
          /\ current_execution' = handle_exception(counted, executions_history, Text.fault).ended[1]
          /\ executions_history' = handle_exception(counted, executions_history, Text.fault).ended[2]
          /\ metrics_files' =
                end_task_files(counted, FALSE, Text.fault,
                               handle_exception(counted, executions_history, Text.fault).ended[2],
                               metrics_files, "ok", "ok").files
          /\ pc' = handle_exception(counted, executions_history, Text.fault).pc
          /\ outcome' = handle_exception(counted, executions_history, Text.fault).outcome
          /\ returned' = handle_exception(counted, executions_history, Text.fault).returned
          /\ UNCHANGED <<messages, pending, solutions, memory_file>>
       \/ \* the operator interrupts the request
          /\ EvaluatorEndTask(counted, FALSE, msg_interrupted, "ok", "ok")
          /\ pc' = "returned"
          /\ outcome' = "interrupted"
          /\ returned' = str_interrupted
          /\ UNCHANGED <<messages, pending, solutions, memory_file>>
       \/ \* the response has no choices
          /\ current_execution' = counted
          /\ pc' = "returned"
          /\ outcome' = "no_response"
          /\ returned' = str_no_response
          /\ UNCHANGED <<messages, pending, executions_history, solutions,
                         memory_file, metrics_files>>
       \/ \* the response has no tool calls: the final answer
          /\ \E content \in {NoneStr, Text.final} :
                /\ messages' = messages_append(messages, <<Message("assistant", content)>>)
                /\ returned' = IF Truthy(content) THEN content ELSE <<>>
          /\ IF stores_solution(config, current_execution_path)
             THEN \E tools_used \in Orderings(_extract_tools(current_execution_path)) :
                     StoreSolution(Text.prompt, current_execution_path, TRUE, tools_used, "ok")
             ELSE UNCHANGED <<solutions, memory_file>>
          /\ EvaluatorEndTask(counted, TRUE, NoneStr, "ok", "ok")
          /\ pc' = "returned"
          /\ outcome' = "final"
          /\ UNCHANGED pending
       \/ \* the response carries tool calls
          /\ \E calls \in Responses :
                /\ pending' = [k \in 1..Len(calls) |->
                                  [id |-> <<iteration + 1, k>>, name |-> calls[k].name,
                                   json_ok |-> calls[k].json_ok,
                                   arguments |-> calls[k].arguments]]
                /\ messages' = messages_append(messages,
                      <<[role |-> "assistant", content |-> NoneStr,
                         tool_calls |-> [k \in 1..Len(calls) |-> <<iteration + 1, k>>],
                         tool_call_id |-> <<>>]>>)
          /\ current_execution' = counted
          /\ pc' = "dispatch"
          /\ UNCHANGED <<outcome, returned, executions_history, solutions,
                         memory_file, metrics_files>>
    /\ session_log' =
          IF config.session /\ Len(messages') > Len(messages)
          THEN save_message(session_log, messages'[Len(messages')])
          ELSE session_log
    /\ UNCHANGED <<config, retry, last_tool_output, scenario, plan_request, current_execution_path,
                   approval_vars, gate_vars, query_vars, tracker_vars>>

\* the operator is prompted for approval in an attempt of the call
PromptsApproval(cfg, tool_call, approved, denied) ==
    /\ tool_call.json_ok
    /\ approval_stage(critical_check(cfg, tool_call), approved, denied, "yes").prompted

\* the operator is prompted for permission in an attempt of the call, if the
\* attempt gets that far
PromptsPermission(cfg, tool_call) ==
    /\ tool_call.json_ok
    /\ gate_check(cfg, tool_call).level = "ask"

\* the output of the attempt rec makes the executor reflect and go on
FailedOutput(rec) ==
    /\ config.enable_retry
    /\ rec.outcome = "return"
    /\ _should_reflect_on_output(config, rec.value)

\* the number of the pass of the retry loop that comes next, from 0
NextAttempt == IF retry.status # "running" THEN 0 ELSE retry.attempts

\* the end of a pass: e is the attempt, p what the loop does with it, used
\* the task record after the attempt
AttemptEnd(tool_call, e, p, used, tracked) ==
    /\ tool_stats' = tracked.stats
    /\ stats_file' = tracked.file
    /\ approved_operations' = e.approved
    /\ denied_operations' = e.denied
    /\ retry' = [call |-> tool_call, attempts |-> NextAttempt + 1,
                 last |-> [approval |-> e.rec.approval, perm |-> e.rec.perm,
                           perm_answer |-> e.rec.perm_answer,
                           executed |-> e.rec.executed,
                           outcome |-> e.rec.outcome, value |-> e.rec.value,
                           reflected |-> p.reflected, waited |-> p.waited],
                 earlier |-> IF retry.status # "running" THEN {}
                             ELSE retry.earlier \cup OperatorEvents(retry.last),
                 status |-> IF p.status = "again" THEN "running"
                            ELSE IF p.status = "done" THEN "done"
                            ELSE "aborted",
                 result |-> IF p.status = "done" THEN p.result ELSE NoneStr]
    /\ last_tool_output' = IF p.sets_output THEN p.result ELSE last_tool_output
    /\ current_execution_path' =
          IF e.rec.executed /\ e.rec.outcome = "return"
          THEN Append(current_execution_path, execution_step(tool_call))
          ELSE current_execution_path
    /\ messages' = messages_append(messages, pass_messages(tool_call, p))
    /\ session_log' =
          IF config.session /\ p.status = "done"
          THEN save_message(session_log, tool_msg(tool_call, p.result))
          ELSE session_log
    /\ CASE p.status = "again" ->
              /\ current_execution' = used
              /\ UNCHANGED <<pc, outcome, returned, pending, executions_history,
                             metrics_files>>
         [] p.status = "done" ->
              /\ current_execution' = used
              /\ pending' = Tail(pending)
              /\ pc' = IF Tail(pending) = <<>> THEN "request" ELSE "dispatch"
              /\ UNCHANGED <<outcome, returned, executions_history, metrics_files>>
         [] p.status = "raise" ->
              /\ pc' = handle_exception(used, executions_history, p.result).pc
              /\ outcome' = handle_exception(used, executions_history, p.result).outcome
              /\ returned' = handle_exception(used, executions_history, p.result).returned
              /\ pending' = <<>>
              /\ current_execution' = handle_exception(used, executions_history, p.result).ended[1]
              /\ executions_history' = handle_exception(used, executions_history, p.result).ended[2]
              /\ metrics_files' =
                    end_task_files(used, FALSE, p.result,
                                   handle_exception(used, executions_history, p.result).ended[2],
                                   metrics_files, "ok", "ok").files
         [] p.status = "interrupt" ->
              /\ pc' = "returned"
              /\ outcome' = "interrupted"
              /\ returned' = str_interrupted
              /\ pending' = <<>>
              /\ EvaluatorEndTask(used, FALSE, msg_interrupted, "ok", "ok")

\* the pass around the attempt e: the reflection request and the backoff
\* sleep have a choice only where the code gets to them
AttemptPass(tool_call, e) ==
    \E refl \in (IF FailedOutput(e.rec) /\ tool_call.json_ok
                 THEN ReflectionOutcomes ELSE {"empty"}),
       sleep \in (IF /\ config.enable_retry
                     /\ NextAttempt < retry_config(tool_call.name).max_retries - 1
                     /\ (FailedOutput(e.rec) \/ e.rec.outcome = "raise")
                  THEN SleepOutcomes ELSE {"ok"}) :
        AttemptEnd(tool_call, e,
                   retry_pass(config, tool_call, NextAttempt, e.rec, refl, sleep),
                   IF e.rec.executed /\ e.rec.outcome = "return" /\ config.enable_evaluation
                   THEN record_tool_use(current_execution, tool_call.name)
                   ELSE current_execution,
                   track_execution(tool_stats, stats_file, NameStr[tool_call.name], e.rec,
                                   Timestamp(Len(current_execution_path) + 1)))

\* what the tool's execute can do in this attempt, if the attempt gets to it
ToolChoices(tool_call, approval_answer, perm_answer) ==
    IF ~_execute_tool_with_permissions(config, tool_call,
            approved_operations, denied_operations,
            approval_answer, perm_answer, Out.ok).rec.executed
    THEN {Out.ok}
    ELSE IF scenario = "steady" THEN {Out.ok, KeyboardInterrupt}
    ELSE ToolOutcomes

\* one pass of the retry loop for the first pending tool call: the attempt
\* with its gating, the reflection and the backoff; when the pass ends the
\* call, the tool message is appended and the next call or the next iteration
\* follows; a fault that escapes ends execute.  The operator and the tool
\* have a choice only where the code gets to them.
Attempt ==
    /\ pc = "dispatch"
    /\ pending # <<>>
    /\ \E approval_answer \in
             (IF PromptsApproval(config, Head(pending),
                                 approved_operations, denied_operations)
              THEN ApprovalAnswers ELSE {"yes"}),
          perm_answer \in
             (IF PromptsPermission(config, Head(pending)) THEN PermAnswers ELSE {"yes"}) :
       \E tool_out \in ToolChoices(Head(pending), approval_answer, perm_answer) :
          AttemptPass(Head(pending),
                      _execute_tool_with_permissions(config, Head(pending),
                          approved_operations, denied_operations,
                          approval_answer, perm_answer, tool_out))
    /\ UNCHANGED <<config, iteration, scenario, plan_request, solutions, memory_file,
                   approval_log, gate_vars, query_vars, other_stats, recorded, store_call>>

\* the main loop ran out of iterations
MaxIterationsReached ==
    /\ pc = "request"
    /\ iteration = MAX_ITERATIONS
    /\ pc' = "returned"
    /\ outcome' = "max_iterations"
    /\ returned' = str_max_iterations \o IntToStr(MAX_ITERATIONS) \o <<")">>
    /\ IF config.enable_evaluation
       THEN EvaluatorEndTask(current_execution, FALSE, msg_max_iterations, "ok", "ok")
       ELSE UNCHANGED <<current_execution, executions_history, metrics_files>>
    /\ UNCHANGED <<config, iteration, messages, pending, retry, last_tool_output,
                   current_execution_path, solutions, memory_file, scenario, plan_request, session_log,
                   approval_vars, gate_vars, query_vars, tracker_vars>>

Init ==
    /\ InitAgent(Configs, SolutionStores, {<<>>})
    /\ solutions # <<>> => config \in FeatureConfigs
    /\ InitTracker
    /\ NoQuery
    /\ approved_operations = {}
    /\ denied_operations = {}
    /\ approval_log = <<>>
    /\ gate_in = [profile |-> "standard", category |-> "read", target |-> <<>>]
    /\ gate_out = None

Next == StartExecute \/ ModelRequest \/ Attempt \/ MaxIterationsReached

Spec == Init /\ [][Next]_vars

\* execute is called and runs on: a request, a tool, a prompt or a sleep that
\* returns lets the next step of execute happen
SpecLive == Init /\ [][Next]_vars /\ WF_vars(Next)

(***************************************************************************)
(* The Permission Gate as a function of (profile, category, target).       *)
(***************************************************************************)
GateTargets == Commands \cup Paths

\* "custom" is a profile name the table does not have
GateProfiles == ProfileNames \cup {"custom"}

InitGate ==
    /\ gate_in \in [profile : GateProfiles, category : Categories, target : GateTargets]
    /\ gate_out = None
    /\ approved_operations = {}
    /\ denied_operations = {}
    /\ approval_log = <<>>
    /\ InitAgent({DefaultConfig}, {<<>>}, {<<>>})
    /\ InitTracker
    /\ NoQuery

\* PermissionChecker(profile).check_file_read/_write/check_bash_command
CheckPermission ==
    /\ gate_out = None
    /\ gate_out' = check(gate_in.profile, gate_in.category, gate_in.target)
    /\ UNCHANGED <<gate_in, query_vars, approval_vars, agent_vars, tracker_vars>>

NextGate == CheckPermission

SpecGate == InitGate /\ [][NextGate]_vars

(***************************************************************************)
(* The approval cache under any sequence of requests.                      *)
(***************************************************************************)
\* the (operation, details) pairs of the requests
ApprovalPairs ==
    {<<op_bash, Cmd.rm>>, <<op_bash, Cmd.longx>>, <<op_bash, Cmd.longy>>,
     <<op_write, FilePath.env>>}

InitApproval ==
    /\ approved_operations = {}
    /\ denied_operations = {}
    /\ approval_log = <<>>
    /\ gate_in = [profile |-> "standard", category |-> "read", target |-> <<>>]
    /\ gate_out = None
    /\ InitConversed({DefaultConfig}, {<<>>}, {<<>>}, OneTaskConversation)
    /\ InitTracker
    /\ NoQuery

\* one call of CriticalOperation.prompt_approval
PromptApproval ==
    /\ Len(approval_log) < MaxRequests
    /\ \E pair \in ApprovalPairs, answer \in ApprovalAnswers :
          LET r == prompt_approval(approved_operations, denied_operations,
                                   pair[1], pair[2], answer)
          IN  /\ approved_operations' = r.approved
              /\ denied_operations' = r.denied
              /\ approval_log' = Append(approval_log,
                    [operation |-> pair[1], details |-> pair[2],
                     prompted |-> r.prompted,
                     answer |-> IF r.prompted THEN answer ELSE None,
                     result |-> r.result])
    /\ UNCHANGED <<gate_vars, query_vars, agent_vars, tracker_vars>>

\* a plausible slip: clearing the history also forgets the decisions
clear_history_forgets_decisions(approved, denied) ==
    [messages |-> <<>>, last_tool_output |-> <<>>, approved |-> {}, denied |-> {}]

\* Agent.clear_history: the messages and the last tool output are reset; the
\* decisions of the operator are not touched
clear_history(approved, denied) ==
    [messages |-> <<>>, last_tool_output |-> <<>>, approved |-> approved, denied |-> denied]

\* one call of Agent.clear_history between two tasks
ClearHistory ==
    /\ messages' = clear_history(approved_operations, denied_operations).messages
    /\ last_tool_output' =
          clear_history(approved_operations, denied_operations).last_tool_output
    /\ approved_operations' = clear_history(approved_operations, denied_operations).approved
    /\ denied_operations' = clear_history(approved_operations, denied_operations).denied
    /\ UNCHANGED <<approval_log, gate_vars, query_vars, tracker_vars,
                   config, pc, outcome, returned, iteration, pending, retry,
                   current_execution, executions_history, current_execution_path,
                   solutions, memory_file, metrics_files, scenario, plan_request,
                   session_log>>

NextApproval == PromptApproval \/ ClearHistory

SpecApproval == InitApproval /\ [][NextApproval]_vars

(***************************************************************************)
(* The stores under any sequence of their operations.                      *)
(***************************************************************************)
\* the error a failed execution of each tool is recorded with
ErrorOf ==
    [Read |-> <<"T", "i", "m", "e", "o", "u", "t", ":", " ", "s", "t", "a", "l", "l", "e", "d">>,
     Bash |-> <<"\"", "x", "\"", " ", "f", "a", "i", "l", "e", "d">>]

\* the store operations made so far
OpsDone ==
    LET calls(t) == recorded[t].successful + recorded[t].failed
    IN  calls("Read") + calls("Bash") + Len(solutions) + Len(executions_history)

InitStores ==
    /\ approved_operations = {}
    /\ denied_operations = {}
    /\ approval_log = <<>>
    /\ gate_in = [profile |-> "standard", category |-> "read", target |-> <<>>]
    /\ gate_out = None
    /\ InitAgent({DefaultConfig}, {<<>>}, {<<>>})
    /\ InitTracker
    /\ NoQuery

\* the state after a call of record_execution that ended as r says
Recorded(tool, success, write, r) ==
    /\ tool_stats' = r.stats
    /\ stats_file' = r.file
    /\ store_call' = [op |-> "record_execution", failed |-> write # "ok", raised |-> r.raised]
    /\ recorded' = [recorded EXCEPT ![tool] =
                      IF success THEN [@ EXCEPT !.successful = @ + 1]
                      ELSE [@ EXCEPT !.failed = @ + 1]]

\* one call of ToolTracker.record_execution
RecordExecution(limit) ==
    /\ OpsDone < limit
    /\ \E tool \in TrackedTools, success \in BOOLEAN, write \in WriteOutcomes :
          Recorded(tool, success, write,
                   record_execution(tool_stats, stats_file, NameStr[tool], success,
                                    IF success THEN NoneStr ELSE ErrorOf[tool],
                                    Timestamp(OpsDone + 1), write))
    /\ UNCHANGED <<approval_vars, gate_vars, query_vars, agent_vars, other_stats>>

\* one call of SemanticMemory.store_solution
StoreSolutionCall ==
    /\ OpsDone < MaxStoreOps
    /\ \E success \in BOOLEAN, write \in AppendOutcomes :
          /\ StoreSolution(Text.prompt, OldSolution.steps, success, OldSolution.tools_used, write)
          /\ store_call' =
                [op |-> "store_solution", success |-> success,
                 failed |-> success /\ write # "ok",
                 raised |-> _persist_solution(memory_file, OldSolution, write).raised]
    /\ UNCHANGED <<approval_vars, gate_vars, query_vars, config, pc, outcome, returned, iteration,
                   messages, pending, retry, last_tool_output, current_execution,
                   executions_history, current_execution_path, metrics_files,
                   scenario, plan_request, session_log,
                   tool_stats, other_stats, stats_file, recorded>>

\* one call of AgentEvaluator.start_task
StartTask(limit) ==
    /\ OpsDone < limit
    /\ current_execution = NoExecution
    /\ current_execution' = start_task(Text.prompt)
    /\ store_call' = [op |-> "start_task", failed |-> FALSE, raised |-> None]
    /\ UNCHANGED <<approval_vars, gate_vars, query_vars, config, pc, outcome, returned, iteration,
                   messages, pending, retry, last_tool_output, executions_history,
                   current_execution_path, solutions, memory_file, metrics_files,
                   scenario, plan_request, session_log,
                   tool_stats, other_stats, stats_file, recorded>>

\* one call of AgentEvaluator.end_task for a started task
EndTask ==
    /\ current_execution # NoExecution
    /\ \E success \in BOOLEAN, append \in AppendOutcomes, write \in WriteOutcomes :
          /\ EvaluatorEndTask(current_execution, success,
                              IF success THEN NoneStr ELSE Text.fault, append, write)
          /\ store_call' =
                [op |-> "end_task", failed |-> append # "ok" \/ write # "ok",
                 write |-> write,
                 raised |-> end_task_files(current_execution, success,
                                IF success THEN NoneStr ELSE Text.fault,
                                executions_history, metrics_files, append, write).raised]
    /\ UNCHANGED <<approval_vars, gate_vars, query_vars, config, pc, outcome, returned, iteration,
                   messages, pending, retry, last_tool_output, current_execution_path,
                   solutions, memory_file, scenario, plan_request, session_log, tool_stats, other_stats, stats_file, recorded>>

\* one call of AgentEvaluator.record_tokens for a started task
RecordTokens ==
    /\ current_execution # NoExecution
    /\ \E total \in TokenCounts :
          /\ current_execution[1].total_tokens + total <= MaxTokens
          /\ current_execution' = record_tokens(current_execution, total)
    /\ store_call' = [op |-> "record_tokens", failed |-> FALSE, raised |-> None]
    /\ UNCHANGED <<approval_vars, gate_vars, query_vars, config, pc, outcome, returned, iteration,
                   messages, pending, retry, last_tool_output, executions_history,
                   current_execution_path, solutions, memory_file, metrics_files,
                   scenario, plan_request, session_log,
                   tool_stats, other_stats, stats_file, recorded>>

NextTracker == RecordExecution(MaxRecords)

\* the state after a call of record_execution of the tracker k of two, that
\* ended as r says
RecordedBy(k, tool, success, r) ==
    /\ tool_stats' = IF k = 1 THEN r.stats ELSE tool_stats
    /\ other_stats' = IF k = 2 THEN r.stats ELSE other_stats
    /\ stats_file' = r.file
    /\ store_call' = [op |-> "record_execution", failed |-> FALSE, raised |-> r.raised]
    /\ recorded' = [recorded EXCEPT ![tool] =
                      IF success THEN [@ EXCEPT !.successful = @ + 1]
                      ELSE [@ EXCEPT !.failed = @ + 1]]

\* one call of record_execution of one of two ToolTracker objects that were
\* opened on the same directory: each has the stats it loaded and counted,
\* and writes them to the one file; the write succeeds
RecordByEither(limit) ==
    /\ OpsDone < limit
    /\ \E k \in {1, 2}, tool \in TrackedTools, success \in BOOLEAN :
          RecordedBy(k, tool, success,
                     record_execution(IF k = 1 THEN tool_stats ELSE other_stats, stats_file,
                                      NameStr[tool], success,
                                      IF success THEN NoneStr ELSE ErrorOf[tool],
                                      Timestamp(OpsDone + 1), "ok"))
    /\ UNCHANGED <<approval_vars, gate_vars, query_vars, agent_vars>>

NextTrackers == RecordByEither(MaxRecords)

\* two trackers opened on an empty directory
SpecTrackers == InitStores /\ [][NextTrackers]_vars

SpecTracker == InitStores /\ [][NextTracker]_vars

NextStores == RecordExecution(MaxStoreOps) \/ StoreSolutionCall \/ StartTask(MaxStoreOps) \/ EndTask

SpecStores == InitStores /\ [][NextStores]_vars

NextEvaluator == StartTask(MaxTasks) \/ RecordTokens \/ EndTask

SpecEvaluator == InitStores /\ [][NextEvaluator]_vars

(***************************************************************************)
(* The queries as functions of their arguments.                            *)
(***************************************************************************)
\* the task descriptions of the stored solutions and of the searches
Task ==
    [fix      |-> <<"f", "i", "x", " ", "b", "u", "g">>,
     fix_the  |-> <<"f", "i", "x", " ", "t", "h", "e", " ", "b", "u", "g">>,
     FIX      |-> <<"F", "I", "X", " ", " ", "b", "u", "g">>,
     add      |-> <<"a", "d", "d", " ", "t", "e", "s", "t">>,
     fix_test |-> <<"f", "i", "x", " ", "t", "h", "e", " ", "t", "e", "s", "t">>,
     empty    |-> <<>>]

StoredTasks == {Task.fix, Task.fix_the, Task.FIX, Task.add}

SearchedTasks == {Task.fix, Task.fix_test, Task.empty}

Thresholds == {<<0, 1>>, DefaultThreshold, <<1, 2>>}

\* the stores of at most MaxStored solutions; the steps of a solution tell
\* its place in the store
SearchedStores ==
    UNION {{[i \in 1..n |-> [task |-> tasks[i], steps |-> <<IntToStr(i)>>,
                             tools_used |-> <<>>]] :
               tasks \in [1..n -> StoredTasks]} : n \in 0..MaxStored}

\* the histories of at most MaxHistory finished tasks; the iterations of a
\* task tell its place in the history
Histories ==
    UNION {{[i \in 1..n |-> [prompt |-> Text.prompt, success |-> successes[i],
                             iterations |-> i, total_tokens |-> 0,
                             tools_used |-> <<>>,
                             error_message |-> IF successes[i] THEN NoneStr
                                               ELSE Text.fault]] :
               successes \in [1..n -> BOOLEAN]} : n \in 0..MaxHistory}

\* the tools of the ranked statistics
RankedTools == {"Read", "Bash", "Write"}

\* the counters (successful, failed) of a tool that was executed
RankedCounts ==
    {<<1, 0>>, <<1, 1>>, <<3, 0>>, <<4, 0>>, <<2, 1>>, <<4, 2>>, <<1, 2>>, <<2, 4>>, <<0, 3>>}

\* the entry of a tool after s successful and f failed executions
RECURSIVE entry_after(_, _, _)
entry_after(entry, s, f) ==
    IF s > 0 THEN entry_after(count_execution(entry, TRUE, NoneStr, Timestamp(1)), s - 1, f)
    ELSE IF f > 0 THEN entry_after(count_execution(entry, FALSE, Out.error, Timestamp(1)), s, f - 1)
    ELSE entry

\* the statistics a tracker holds after the tools of order were first executed
\* in that order, the i-th of them with the counters counts[i]
stats_after(order, counts) ==
    [i \in DOMAIN order |->
        entry_after(with_entry(<<>>, NameStr[order[i]])[1], counts[i][1], counts[i][2])]

\* the statistics of the ranking queries: some of the tools, in any order of
\* first execution, each with any counters
RankedStats ==
    UNION {{stats_after(order, counts) : counts \in [DOMAIN order -> RankedCounts]}
           : order \in UNION {Orderings(tools) : tools \in SUBSET RankedTools}}

InitSearch ==
    /\ approved_operations = {}
    /\ denied_operations = {}
    /\ approval_log = <<>>
    /\ gate_in = [profile |-> "standard", category |-> "read", target |-> <<>>]
    /\ gate_out = None
    /\ recorded = [t \in TrackedTools |-> [successful |-> 0, failed |-> 0]]
    /\ store_call = [op |-> None, failed |-> FALSE, raised |-> None]
    /\ other_stats = _load_stats(NoFile)
    /\ \/ /\ InitAgent({DefaultConfig}, {<<>>}, {<<>>})
          /\ query_in \in [op : {"get_reliability_ranking"}]
          /\ tool_stats \in RankedStats
          /\ stats_file = _save_stats(tool_stats, NoFile, "ok").file
       \/ /\ InitAgent({DefaultConfig}, SearchedStores, {<<>>})
          /\ tool_stats = _load_stats(NoFile)
          /\ stats_file = NoFile
          /\ query_in \in [op : {"find_similar_solutions"}, task : SearchedTasks,
                           threshold : Thresholds, limit : 0..MaxLimit]
       \/ /\ InitAgent({DefaultConfig}, {<<>>}, Histories)
          /\ tool_stats = _load_stats(NoFile)
          /\ stats_file = NoFile
          /\ query_in \in [op : {"get_recent_executions"}, n : 0..MaxLimit]
    /\ query_out = [done |-> FALSE, value |-> <<>>]

\* one call of SemanticMemory.find_similar_solutions
FindSimilarSolutions ==
    /\ query_in.op = "find_similar_solutions"
    /\ ~query_out.done
    /\ query_out' = [done |-> TRUE,
                     value |-> find_similar_solutions(solutions, query_in.task,
                                                      query_in.threshold, query_in.limit)]
    /\ UNCHANGED <<query_in, approval_vars, gate_vars, agent_vars, tracker_vars>>

\* one call of AgentEvaluator.get_recent_executions
GetRecentExecutions ==
    /\ query_in.op = "get_recent_executions"
    /\ ~query_out.done
    /\ query_out' = [done |-> TRUE,
                     value |-> get_recent_executions(executions_history, query_in.n)]
    /\ UNCHANGED <<query_in, approval_vars, gate_vars, agent_vars, tracker_vars>>

\* one call of ToolTracker.get_reliability_ranking
GetReliabilityRanking ==
    /\ query_in.op = "get_reliability_ranking"
    /\ ~query_out.done
    /\ query_out' = [done |-> TRUE, value |-> get_reliability_ranking(tool_stats)]
    /\ UNCHANGED <<query_in, approval_vars, gate_vars, agent_vars, tracker_vars>>

NextSearch == FindSimilarSolutions \/ GetRecentExecutions \/ GetReliabilityRanking

SpecSearch == InitSearch /\ [][NextSearch]_vars

(***************************************************************************)
(* Claims about the Permission Gate (SpecGate).                            *)
(***************************************************************************)
\* the patterns a rule set lists under a key, as a set
PatternSet(profile, category, key) ==
    LET rules == profiles[profile][category]
    IN  IF key \in DOMAIN rules THEN {rules[key][i] : i \in 1..Len(rules[key])} ELSE {}

GateDenyHit == \E p \in PatternSet(gate_in.profile, gate_in.category, "deny") :
                  fnmatch(gate_in.target, p)

GateAllowHit == \E p \in PatternSet(gate_in.profile, gate_in.category, "allow") :
                   fnmatch(gate_in.target, p)

\* C4: for every built-in profile, category and target the Permission Gate
\* answers Deny when the target matches a deny pattern (also when it matches
\* an allow pattern as well), otherwise Allow when it matches an allow
\* pattern, otherwise the default the profile configures for the category.
C4_DenyThenAllowThenDefault ==
    (gate_out # None /\ gate_in.profile \in ProfileNames) =>
        /\ GateDenyHit => gate_out = "deny"
        /\ (~GateDenyHit /\ GateAllowHit) => gate_out = "allow"
        /\ (~GateDenyHit /\ ~GateAllowHit) =>
               gate_out = profiles[gate_in.profile][gate_in.category].default

\* a target that matches a deny pattern and an allow pattern was evaluated
C4_Witness ==
    /\ gate_out = "deny"
    /\ gate_in.profile \in ProfileNames
    /\ GateDenyHit
    /\ GateAllowHit

(***************************************************************************)
(* Claims about the approval cache (SpecApproval).                         *)
(***************************************************************************)
SamePair(i, j) ==
    /\ approval_log[i].operation = approval_log[j].operation
    /\ approval_log[i].details = approval_log[j].details

PromptsFor(operation, details) ==
    {i \in DOMAIN approval_log :
        /\ approval_log[i].operation = operation
        /\ approval_log[i].details = details
        /\ approval_log[i].prompted}

C2_CachedDecisionReturned ==
    \A i, j \in DOMAIN approval_log :
        (/\ i < j
         /\ SamePair(i, j)
         /\ approval_log[i].prompted
         /\ approval_log[i].answer \in {"always", "no"}) =>
            /\ ~approval_log[j].prompted
            /\ approval_log[j].answer = None
            /\ approval_log[j].result = (approval_log[i].answer = "always")

\* a pair the operator answered always to was requested again and approved
C2_Witness ==
    \E i, j \in DOMAIN approval_log :
        /\ i < j
        /\ SamePair(i, j)
        /\ approval_log[i].answer = "always"
        /\ ~approval_log[j].prompted
        /\ approval_log[j].result = TRUE

(***************************************************************************)
(* Claims about the gating of a tool call and the retryable executor       *)
(* (Spec).                                                                 *)
(***************************************************************************)
\* the retryable executor has made an attempt of a call whose arguments parse
Attempted == retry.status # "none" /\ retry.call.json_ok

\* the critical-operation detector flags the executor's call
Flagged ==
    \/ /\ retry.call.name = "Bash"
       /\ is_critical_bash_cached(ArgGet(retry.call.arguments, "command", <<>>))[1]
    \/ /\ retry.call.name = "Write"
       /\ is_critical_file_write_cached(ArgGet(retry.call.arguments, "file_path", <<>>))[1]

\* the Permission Gate evaluates the target of the executor's call to Deny
GateDenies ==
    /\ config.use_permissions
    /\ \/ /\ retry.call.name \in {"Read", "ReadImage"}
          /\ \E key \in {"file_path", "image_path"} :
                /\ key \in DOMAIN retry.call.arguments
                /\ check(config.profile, "read", retry.call.arguments[key]) = "deny"
       \/ /\ retry.call.name = "Write"
          /\ check(config.profile, "write", retry.call.arguments.file_path) = "deny"
       \/ /\ retry.call.name = "Bash"
          /\ check(config.profile, "bash", retry.call.arguments.command) = "deny"

\* C3: with approval required, a Bash or Write call the detector flags
\* reaches the tool's execute in an attempt only when approval was obtained
\* in that attempt: the operator answered yes or always, or the pair is in
\* the always-approve cache; this for every profile, and without permissions.
C3_FlaggedNeedsApproval ==
    (Attempted /\ config.require_approval /\ Flagged /\ retry.last.executed) =>
        /\ retry.last.approval \in {"yes", "always", "cached_approved"}
        /\ retry.last.approval = "cached_approved" =>
              \E operation \in {op_bash, op_write}, key \in DOMAIN retry.call.arguments :
                 _hash_operation(operation, retry.call.arguments[key]) \in approved_operations

\* a flagged call was executed with permissions disabled after the operator
\* answered yes
C3_Witness ==
    /\ Attempted
    /\ config.require_approval
    /\ ~config.use_permissions
    /\ Flagged
    /\ retry.last.executed
    /\ retry.last.approval = "yes"

C6_NoStopsTheCall ==
    (Attempted /\ "permission_no" \in retry.earlier) => ~retry.last.executed

\* C7 as stated: a cancelled approval prompt counts as a denial (the tool is
\* not executed in that attempt), and the prompt is not issued again for that
\* tool call.
C7_CancelNotPromptedAgain ==
    /\ (Attempted /\ retry.last.approval = "cancel") => ~retry.last.executed
    /\ (Attempted /\ "approval_cancel" \in retry.earlier) =>
          retry.last.approval \notin ApprovalAnswers

\* the most attempts the claim allows a call of a tool
AttemptLimit(function_name) ==
    IF ~config.enable_retry THEN 1
    ELSE IF function_name = "Bash" THEN 3
    ELSE IF function_name \in {"Read", "Write", "WebSearch"} THEN 2
    ELSE 1

\* C8: with retry enabled a call of the retryable executor makes at most
\* max_retries attempts (Bash 3, Read 2, Write 2, WebSearch 2) and exactly one
\* attempt for a tool that is not in the table; with retry disabled exactly
\* one attempt.
C8_AttemptsBounded ==
    retry.status # "none" =>
        /\ retry.attempts >= 1
        /\ retry.attempts <= AttemptLimit(retry.call.name)
        /\ retry.status = "running" => retry.attempts < AttemptLimit(retry.call.name)

\* a Bash call used all three attempts
C8_Witness ==
    /\ retry.status = "done"
    /\ config.enable_retry
    /\ retry.call.name = "Bash"
    /\ retry.attempts = 3

\* C9 as stated: no reflection message is appended in the final attempt of a
\* call, the single attempt of a tool without retry included; reflection
\* messages are appended only when another attempt follows.
C9_NoReflectionAfterFinalAttempt ==
    retry.status = "done" => ~retry.last.reflected

\* C10: a run in which every response of the completion service carries tool
\* calls ends after exactly 50 model requests with the warning string, which
\* contains 50, and the evaluator records the task as unsuccessful.
C10_MaxIterations ==
    /\ outcome = "max_iterations" =>
          /\ pc = "returned"
          /\ iteration = 50
          /\ Contains(returned, <<"5", "0">>)
          /\ current_execution = NoExecution
          /\ executions_history # <<>>
          /\ ~executions_history[Len(executions_history)].success
          /\ executions_history[Len(executions_history)].iterations = 50
    /\ (pc = "request" /\ iteration = 50) => ENABLED MaxIterationsReached
    /\ (pc # "idle" /\ pc # "returned") => iteration <= 50

\* the run ended at the iteration bound after 50 responses with a tool call
C10_Witness ==
    /\ outcome = "max_iterations"
    /\ iteration = 50
    /\ executions_history # <<>>
    /\ ~executions_history[Len(executions_history)].success
    /\ Len(executions_history[Len(executions_history)].tools_used) = 50

(***************************************************************************)
(* Claims about faults, the episodic memory and the tool results (Spec).   *)
(***************************************************************************)
\* the last task the evaluator has finalized is a failure
FinalizedAsFailure ==
    /\ current_execution = NoExecution
    /\ executions_history # <<>>
    /\ ~executions_history[Len(executions_history)].success

\* C11: a fault at any point of execute, the planning request, the memory
\* retrieval and the session write before the first model request included,
\* becomes a returned error string with the task finalized as a failure:
\* execute never leaves as an exception.
C11_NoFaultLeavesExecute ==
    /\ pc # "raised"
    /\ (pc = "returned" /\ outcome \in {"error", "interrupted"}) =>
          /\ returned # NoneStr
          /\ FinalizedAsFailure

\* C12: during execute the episodic memory gains a solution only when the run
\* ends with a final response and the recorded execution path is not empty;
\* a run that ends in an error, an interrupt or max-iterations leaves the
\* store as it was.
C12_MemoryGainsOnlyOnFinal ==
    /\ [][solutions' # solutions =>
             /\ pc' = "returned" /\ outcome' = "final"
             /\ current_execution_path # <<>>
             /\ Len(solutions') = Len(solutions) + 1
             /\ solutions'[Len(solutions')].steps = current_execution_path]_vars
    /\ [](outcome \in {"error", "interrupted", "max_iterations", "no_response",
                       "KeyboardInterrupt", "OSError"}
             => solutions \in SolutionStores)

\* a run with tool calls ended with a final response and is the last solution
\* of the store
C12_Witness ==
    /\ pc = "returned" /\ outcome = "final"
    /\ current_execution_path # <<>>
    /\ solutions # <<>>
    /\ solutions[Len(solutions)].steps = current_execution_path

\* the last attempt of the executor's call ended in a denial: of the
\* Permission Gate, or of the critical-operation approval
DeniedAttempt ==
    /\ Attempted
    /\ ~retry.last.executed
    /\ retry.last.outcome = "return"
    /\ \/ retry.last.perm = "deny"
       \/ retry.last.approval \in {"no", "cancel", "cached_denied"}

\* C13 as stated: a Permission Gate denial or a critical-approval denial
\* becomes the call's tool result after a single gate evaluation; it triggers
\* no reflection call, no backoff wait and no further attempt of the call.
C13_DenialEndsTheCall ==
    DeniedAttempt =>
        /\ retry.attempts = 1
        /\ ~retry.last.reflected
        /\ retry.last.waited = NoWait
        /\ retry.status = "done"
        /\ retry.result = retry.last.value

\* C14 as stated: a tool call whose arguments are not valid JSON is never
\* executed and does not abort the task; the tool-result message appended for
\* it carries the dispatcher's "Error: Invalid JSON arguments" string, with
\* retry and reflection enabled as well as disabled.
C14_InvalidJsonResult ==
    (retry.status # "none" /\ ~retry.call.json_ok) =>
        /\ ~retry.last.executed
        /\ retry.status = "aborted" => outcome = "interrupted"
        /\ retry.status = "done" =>
              /\ StartsWith(retry.result, str_invalid_json)
              /\ \E i \in DOMAIN messages :
                    /\ messages[i].role = "tool"
                    /\ messages[i].tool_call_id = retry.call.id
                    /\ StartsWith(messages[i].content, str_invalid_json)

\* C15: after a completion-service request of the main loop raises, no
\* further request is issued in that execute call: the task is finalized as
\* failed and an error string is returned.
C15_RequestFaultEndsExecute ==
    /\ [][(pc = "request" /\ outcome' = "error") =>
             /\ pc' = "returned"
             /\ FinalizedAsFailure'
             /\ executions_history'[Len(executions_history')].error_message = Text.fault
             /\ returned' = str_error_prefix \o Text.fault]_vars
    /\ [][pc = "returned" => (pc' = "returned" /\ iteration' = iteration)]_vars

\* the second request of a run raised after the first one was answered with
\* a tool call
C15_Witness ==
    /\ pc = "returned" /\ outcome = "error"
    /\ iteration = 2
    /\ retry.status = "done"
    /\ returned = str_error_prefix \o Text.fault
    /\ FinalizedAsFailure

\* C16: after a user interrupt inside a loop iteration (during the model
\* request, a tool execution, a reflection call or a backoff wait) no message
\* is appended any more in that execute call, the evaluator task is finalized
\* as a failure, and execute returns.  A reflection the model gave before an
\* interrupted backoff wait was appended before the interrupt.
C16_InterruptAppendsNothing ==
    /\ [][(outcome # "interrupted" /\ outcome' = "interrupted") =>
             /\ pc' = "returned"
             /\ returned' = str_interrupted
             /\ FinalizedAsFailure'
             /\ \/ messages' = messages
                \/ /\ pc = "dispatch"
                   /\ retry'.last.waited # NoWait
                   /\ messages' = Append(messages, reflection_msg(retry'.call.name))]_vars
    /\ [][pc = "returned" => messages' = messages]_vars

\* the operator interrupted a backoff wait after a reflection was appended
C16_Witness ==
    /\ pc = "returned" /\ outcome = "interrupted"
    /\ retry.status = "aborted"
    /\ retry.last.reflected
    /\ retry.last.waited # NoWait
    /\ messages[Len(messages)] = reflection_msg(retry.call.name)
    /\ FinalizedAsFailure

\* the positions of the assistant messages that carry tool calls
ToolCallMessages == {i \in DOMAIN messages : messages[i].tool_calls # <<>>}

\* the ids of the tool-result messages after position a, in order
ToolResultIdsAfter(a) ==
    LET results == SelectSeq(SubSeq(messages, a + 1, Len(messages)),
                             LAMBDA msg : msg.role = "tool")
    IN  [i \in DOMAIN results |-> results[i].tool_call_id]

\* C17: when a response carries k tool calls and no fault occurs, the calls
\* are handled one at a time in the order received, each call finishing all
\* of its attempts before the next one starts, and exactly k tool-result
\* messages are appended in that order, the i-th with the id of the i-th call.
C17_ToolResultsInOrder ==
    (ToolCallMessages # {} /\ outcome \notin {"error", "interrupted"}) =>
        LET a == CHOOSE i \in ToolCallMessages : \A j \in ToolCallMessages : j <= i
            ids == messages[a].tool_calls
            done == Len(ids) - Len(pending)
        IN  /\ done >= 0
            /\ ToolResultIdsAfter(a) = SubSeq(ids, 1, done)
            /\ [i \in DOMAIN pending |-> pending[i].id] = SubSeq(ids, done + 1, Len(ids))
            /\ retry.status = "running" => (pending # <<>> /\ retry.call = Head(pending))
            /\ pc \in {"request", "returned"} => done = Len(ids)

\* a response with two tool calls was handled and both results are there, in
\* the order of the calls
C17_Witness ==
    /\ pc = "request"
    /\ ToolCallMessages # {}
    /\ \E a \in ToolCallMessages :
          /\ Len(messages[a].tool_calls) = 2
          /\ ToolResultIdsAfter(a) = messages[a].tool_calls

(***************************************************************************)
(* Claims about the stores (SpecStores, SpecTracker).                      *)
(***************************************************************************)
\* C18: a failure to write the tool-statistics file, the solutions log, or
\* the metrics log or summary is swallowed: record_execution, store_solution
\* and end_task return normally with their in-memory state updated, and the
\* running task is not aborted by it.
C18_WriteFailuresSwallowed ==
    /\ [](store_call.raised = None)
    /\ [][store_call'.failed =>
             CASE store_call'.op = "record_execution" ->
                     /\ tool_stats' # tool_stats
                     /\ \A t \in TrackedTools :
                           recorded'[t] # recorded[t] =>
                              \E i \in DOMAIN tool_stats' :
                                 /\ tool_stats'[i].tool = NameStr[t]
                                 /\ tool_stats'[i].total =
                                       recorded'[t].successful + recorded'[t].failed
                     /\ current_execution' = current_execution
               [] store_call'.op = "store_solution" ->
                     /\ solutions' = Append(solutions, OldSolution)
                     /\ current_execution' = current_execution
               [] store_call'.op = "end_task" ->
                     /\ Len(executions_history') = Len(executions_history) + 1
                     /\ executions_history'[Len(executions_history')].prompt =
                           current_execution[1].prompt
                     /\ current_execution' = NoExecution]_vars

\* each of the three operations has returned after a write of it failed: the
\* statistics, the solutions and the history are there and the files are not
C18_Witness ==
    /\ store_call.failed
    /\ store_call.raised = None
    /\ tool_stats # <<>> /\ stats_file.state # "whole"
    /\ solutions # <<>> /\ memory_file = <<>>
    /\ executions_history # <<>> /\ metrics_files.executions = <<>>

\* the entries of a tool in the statistics
EntriesOf(t) == {i \in DOMAIN tool_stats : tool_stats[i].tool = NameStr[t]}

\* the tools of the reliability ranking
Ranked == {get_reliability_ranking(tool_stats)[r].tool :
              r \in DOMAIN get_reliability_ranking(tool_stats)}

\* C19: starting from an empty statistics store, after any interleaving of n
\* successful and m failed record_execution calls for a tool (n + m >= 1,
\* possibly interleaved with records of other tools), the tool's counters are
\* total = n + m, successful = n, failed = m and success_rate = n / (n + m),
\* and the reliability ranking contains the tool if and only if n + m >= 3.
C19_CountersAndRanking ==
    \A t \in TrackedTools :
        LET n == recorded[t].successful
            m == recorded[t].failed
        IN  /\ (n + m >= 1) =>
                  /\ Cardinality(EntriesOf(t)) = 1
                  /\ \A i \in EntriesOf(t) :
                        /\ tool_stats[i].total = n + m
                        /\ tool_stats[i].successful = n
                        /\ tool_stats[i].failed = m
                        /\ tool_stats[i].success_rate[1] * (n + m) =
                              n * tool_stats[i].success_rate[2]
                        /\ tool_stats[i].success_rate[2] > 0
            /\ (n + m = 0) => EntriesOf(t) = {}
            /\ NameStr[t] \in Ranked <=> n + m >= 3

\* one tool has two successes and one failure and is ranked, the other has
\* one record and is not
C19_Witness ==
    /\ recorded["Read"] = [successful |-> 2, failed |-> 1]
    /\ recorded["Bash"] = [successful |-> 0, failed |-> 1]
    /\ Ranked = {NameStr["Read"]}
    /\ \E i \in EntriesOf("Read") : tool_stats[i].success_rate = <<2, 3>>

\* C20: after any sequence of record_execution calls on a tracker with no
\* write failure, a new tracker constructed on the same directory holds the
\* same per-tool counters (total, successful, failed, success_rate, error
\* histogram) as the first tracker's table: the file is written after every
\* record, and this already when the last write succeeded.
C20_ReloadReproducesStats ==
    (store_call.op = "record_execution" /\ ~store_call.failed) =>
        /\ stats_file.state = "whole"
        /\ _load_stats(stats_file) = tool_stats

\* four records of two tools, failures with both error texts among them, the
\* last write succeeded
C20_Witness ==
    /\ store_call.op = "record_execution" /\ ~store_call.failed
    /\ Len(tool_stats) = 2
    /\ \A i \in DOMAIN tool_stats : tool_stats[i].errors # <<>>
    /\ \E i \in DOMAIN tool_stats : tool_stats[i].total >= 2
    /\ _load_stats(stats_file) = tool_stats

(***************************************************************************)
(* Claims about the queries (SpecSearch, SpecStores).                      *)
(***************************************************************************)
\* the token-overlap similarity of a solution to the searched task
SimilarityOf(solution) == token_overlap(query_in.task, solution.task)

\* how often x occurs in the sequence q
Occurrences(q, x) == Cardinality({i \in DOMAIN q : q[i] = x})

\* result holds at most limit stored solutions, each at least as similar as
\* the threshold, by similarity descending, and no stored solution that it
\* lacks is more similar than one it holds
MostSimilarFirst(result, returned_sim, stored_sim) ==
    /\ Len(result) <= query_in.limit
    /\ \A i \in DOMAIN result :
          /\ Occurrences(result, result[i]) <= Occurrences(solutions, result[i])
          /\ FracGeq(returned_sim[i], query_in.threshold)
    /\ \A i, j \in DOMAIN result : i < j => FracGeq(returned_sim[i], returned_sim[j])
    /\ \A k \in DOMAIN solutions, i \in DOMAIN result :
          Occurrences(result, solutions[k]) = 0 => FracGeq(returned_sim[i], stored_sim[k])

\* C21: find_similar_solutions(task, t, limit) returns at most limit stored
\* solutions, each with a token-overlap similarity to task of at least t, in
\* non-increasing order of similarity, and no stored solution left out has a
\* strictly higher similarity than a returned one.
C21_MostSimilarFirst ==
    (query_out.done /\ query_in.op = "find_similar_solutions") =>
        MostSimilarFirst(query_out.value,
                         [i \in DOMAIN query_out.value |-> SimilarityOf(query_out.value[i])],
                         [k \in DOMAIN solutions |-> SimilarityOf(solutions[k])])

\* a search with limit 2 in a store of three hits returned the two most
\* similar ones, which are not the first two of the store
C21_Witness ==
    /\ query_out.done
    /\ query_in.op = "find_similar_solutions"
    /\ query_in.limit = 2
    /\ Len(query_out.value) = 2
    /\ Len(solutions) = 3
    /\ \A k \in DOMAIN solutions : FracGeq(SimilarityOf(solutions[k]), query_in.threshold)
    /\ query_out.value[1] = solutions[3]
    /\ ~FracGeq(SimilarityOf(query_out.value[2]), SimilarityOf(query_out.value[1]))

\* q2 is q1 and one more element
OneMore(q1, q2) == Len(q2) = Len(q1) + 1 /\ SubSeq(q2, 1, Len(q1)) = q1

\* C22 as stated: store_solution called with success=false leaves both the
\* in-memory solution list and the durable solutions log unchanged; only
\* calls with success=true append exactly one solution to each.
C22_AppendsToBoth ==
    [][store_call'.op = "store_solution" =>
          IF store_call'.success
          THEN OneMore(solutions, solutions') /\ OneMore(memory_file, memory_file')
          ELSE solutions' = solutions /\ memory_file' = memory_file]_vars

\* C22, amended: store_solution called with success=false leaves the solution
\* list and the solutions log unchanged; a call with success=true appends
\* exactly one solution to the list, and its line to the log unless the
\* append to the log fails, in which case the log is unchanged.
C22_AppendsUnlessWriteFails ==
    [][store_call'.op = "store_solution" =>
          IF store_call'.success
          THEN /\ OneMore(solutions, solutions')
               /\ IF store_call'.failed
                  THEN memory_file' = memory_file
                  ELSE /\ OneMore(memory_file, memory_file')
                       /\ memory_file'[Len(memory_file')] =
                             solution_line(solutions'[Len(solutions')])
          ELSE solutions' = solutions /\ memory_file' = memory_file]_vars

\* a call with success=true has added a second solution to the list while
\* its append to the log failed: the log holds one line
C22_Witness ==
    /\ store_call.op = "store_solution"
    /\ store_call.success
    /\ store_call.failed
    /\ Len(solutions) = 2
    /\ Len(memory_file) = 1

\* C24: get_recent_executions(n), for every n >= 0, returns exactly
\* min(n, size of history) records: the most recently completed tasks, newest
\* first.
C24_RecentNewestFirst ==
    (query_out.done /\ query_in.op = "get_recent_executions") =>
        /\ Len(query_out.value) =
              IF query_in.n < Len(executions_history) THEN query_in.n
              ELSE Len(executions_history)
        /\ \A i \in DOMAIN query_out.value :
              query_out.value[i] = executions_history[Len(executions_history) + 1 - i]

\* the summary file holds a whole summary whose figures are those of history
SummaryOver(text, history) ==
    /\ StrToInt(text.total_tasks) = Len(history)
    /\ StrToInt(text.successful_tasks) + StrToInt(text.failed_tasks) = StrToInt(text.total_tasks)
    /\ float_parse(text.success_rate) =
          Float(StrToInt(text.successful_tasks), StrToInt(text.total_tasks))
    /\ StrToInt(text.total_tokens_used) = total_tokens(history)

\* C23 as stated: after every end_task of an evaluator, the persisted summary
\* is the full recompute over its history: total_tasks equals the number of
\* executions in history, successful_tasks + failed_tasks = total_tasks,
\* success_rate = successful_tasks / total_tasks, and total_tokens_used equals
\* the sum of total_tokens over history.
C23_SummaryIsRecompute ==
    [][store_call'.op = "end_task" =>
          /\ metrics_files'.summary.state = "whole"
          /\ SummaryOver(metrics_files'.summary.text, executions_history')]_vars

\* C23, amended: after every end_task of an evaluator whose write of the
\* summary succeeds, the persisted summary is the full recompute over its
\* history (total_tasks, successful_tasks + failed_tasks, success_rate and
\* total_tokens_used as stated); when the write fails, end_task returns with
\* the summary file left as it was or left incomplete.
C23_SummaryIsRecomputeWhenWritten ==
    [][store_call'.op = "end_task" =>
          IF store_call'.write = "ok"
          THEN /\ metrics_files'.summary.state = "whole"
               /\ SummaryOver(metrics_files'.summary.text, executions_history')
          ELSE \/ metrics_files'.summary = metrics_files.summary
               \/ metrics_files'.summary.state = "cut"]_vars

\* a successful task of 100 tokens and a failed one of 50 have ended: the
\* summary says 2 tasks, a success rate of 1/2 and 150 tokens
C23_Witness ==
    /\ store_call.op = "end_task"
    /\ Len(executions_history) = 2
    /\ executions_history[1].success /\ executions_history[1].total_tokens = 100
    /\ ~executions_history[2].success /\ executions_history[2].total_tokens = 50
    /\ metrics_files.summary.state = "whole"
    /\ StrToInt(metrics_files.summary.text.total_tasks) = 2
    /\ float_parse(metrics_files.summary.text.success_rate) = <<1, 2>>
    /\ StrToInt(metrics_files.summary.text.total_tokens_used) = 150

(***************************************************************************)
(* Claims about the conversation and the retryable executor (Spec).        *)
(***************************************************************************)
\* C25: when session persistence is active, every message appended to the
\* conversation during execute (user, assistant and tool messages, including
\* plan, memory-context and reflection messages) is also appended to the
\* session transcript in the same order, so that load_session afterwards
\* reproduces the conversation; the run in which the write of the session log
\* fails is left aside.
C25_SessionReproducesConversation ==
    (config.session /\ outcome # "OSError") => load_session(session_log) = messages

\* the output carries one of the failure keywords
HasFailureKeyword(output) ==
    \E k \in 1..Len(REFLECTION_KEYWORDS) : Contains(Lower(output), REFLECTION_KEYWORDS[k])

\* the executor has returned and the last attempt of the call failed: it
\* raised, or it returned an output with a failure keyword
ReturnedAfterFailure ==
    /\ retry.status = "done"
    /\ \/ retry.last.outcome = "raise"
       \/ retry.last.outcome = "return" /\ HasFailureKeyword(retry.last.value)

\* the last attempt returned a failing output and raised afterwards, when the
\* arguments were parsed for the reflection
RaisedAfterOutput ==
    /\ ~retry.call.json_ok
    /\ config.enable_retry
    /\ config.enable_reflection

\* C26: when every attempt of a call fails, the retryable executor returns
\* exactly the error text of the last attempt (the last failing tool result,
\* or the last exception's message), never the result of an earlier attempt
\* and never a success indication.
C26_LastErrorReturned ==
    ReturnedAfterFailure =>
        retry.result = IF RaisedAfterOutput THEN str_json_error ELSE retry.last.value

\* the three attempts of a Bash call failed and the output of the third one,
\* "2 tests FAILED", is what the executor returned
C26_Witness ==
    /\ ReturnedAfterFailure
    /\ retry.attempts = 3
    /\ retry.last.outcome = "return"
    /\ retry.last.value = Out.failed
    /\ retry.result = Out.failed

\* C27: during execute the conversation is only extended: the message
\* sequence at any point of the run is a prefix of the message sequence at
\* every later point.
C27_ConversationOnlyExtended ==
    [][/\ Len(messages) <= Len(messages')
       /\ SubSeq(messages', 1, Len(messages)) = messages]_vars

\* a run has ended with a conversation that was extended in every stage: by
\* the user message, an assistant message with its tool call, a reflection,
\* the tool result and the final answer
C27_Witness ==
    /\ pc = "returned"
    /\ outcome = "final"
    /\ \E i, j, k \in DOMAIN messages :
          /\ i < j /\ j < k /\ k < Len(messages)
          /\ messages[i].role = "user"
          /\ messages[j] = reflection_msg(retry.call.name)
          /\ messages[k].role = "tool"

\* the last attempt of the call failed: it raised, or the executor took its
\* output for a failure
LastAttemptFailed ==
    \/ retry.last.outcome = "raise"
    \/ retry.last.outcome = "return" /\ _should_reflect_on_output(config, retry.last.value)

\* C28: within one call of the retryable executor, between failed attempt i
\* and attempt i+1 (i counted from 0) exactly one backoff wait of
\* backoff_factor^i occurs, after any reflection produced for attempt i and
\* before attempt i+1 starts; no backoff wait follows the final attempt or a
\* successful attempt.
C28_BackoffBetweenAttempts ==
    /\ retry.status = "running" =>
          /\ LastAttemptFailed
          /\ retry.last.waited =
                <<Power(retry_config(retry.call.name).backoff_factor[1], retry.attempts - 1),
                  Power(retry_config(retry.call.name).backoff_factor[2], retry.attempts - 1)>>
    /\ retry.status = "done" => retry.last.waited = NoWait
    /\ (retry.status = "aborted" /\ retry.last.waited # NoWait) =>
          /\ LastAttemptFailed
          /\ retry.attempts < retry_config(retry.call.name).max_retries

\* the second attempt of a Bash call failed and was reflected on, and the
\* executor waited 2^1 before the third
C28_Witness ==
    /\ retry.status = "running"
    /\ retry.call.name = "Bash"
    /\ retry.attempts = 2
    /\ retry.last.reflected
    /\ retry.last.waited = <<2, 1>>

\* C29: with retry enabled, when an attempt's textual result contains a
\* failure keyword (case-insensitive substring) and attempts remain, the
\* executor makes another attempt after the backoff wait, whether reflection
\* is enabled or disabled and whether or not a reflection text was produced;
\* the attempts in which the tool was not executed and the passes that the
\* operator interrupted are left aside.
C29_FailedOutputRetried ==
    (/\ config.enable_retry
     /\ retry.status \in {"running", "done"}
     /\ retry.last.executed
     /\ retry.last.outcome = "return"
     /\ HasFailureKeyword(retry.last.value)
     /\ retry.attempts < retry_config(retry.call.name).max_retries) =>
        /\ retry.status = "running"
        /\ retry.last.waited # NoWait

\* the messages of the conversation that are plan messages, memory-context
\* messages and user messages with the prompt
PlanMessages == {i \in DOMAIN messages : messages[i].role = "assistant"
                    /\ messages[i].content = str_plan \o <<"\n">> \o Text.plan}

ContextMessages == {i \in DOMAIN messages : messages[i].role = "assistant"
                       /\ messages[i].content = get_memory_context(solutions, Text.prompt)}

UserMessages == {i \in DOMAIN messages : messages[i] = Message("user", Text.prompt)}

\* C30: in every execute call the messages appended before the first
\* main-loop model request are, in this order: the plan message if the plan
\* is non-empty, the memory-context message if the retrieved context is
\* non-empty, and then exactly one user message with the prompt; a failed
\* planning request yields an empty plan and does not stop the run.
C30_ContextThenPrompt ==
    /\ (pc = "request" /\ iteration = 0) =>
          /\ Cardinality(PlanMessages) = IF plan_request = "text" THEN 1 ELSE 0
          /\ Cardinality(ContextMessages) =
                IF config.enable_memory /\ get_memory_context(solutions, Text.prompt) # <<>>
                THEN 1 ELSE 0
          /\ UserMessages = {Len(messages)}
          /\ Len(messages) = Cardinality(PlanMessages) + Cardinality(ContextMessages) + 1
          /\ \A i \in PlanMessages, j \in ContextMessages : i < j
    /\ plan_request = "raises" =>
          /\ PlanMessages = {}
          /\ pc # "idle"
          /\ pc = "raised" => outcome = "OSError"

\* the planning request gave a plan and the memory had a solution of the same
\* task: the conversation is the plan, the memory context and the prompt when
\* the first model request is made
C30_Witness ==
    /\ pc = "request" /\ iteration = 0
    /\ PlanMessages = {1}
    /\ ContextMessages = {2}
    /\ UserMessages = {3}

(***************************************************************************)
(* Claims about the learning signals of the loop (Spec).                   *)
(***************************************************************************)
\* C31: every step of a solution that the loop stores in episodic memory
\* corresponds to a tool execution that succeeded: an attempt whose result is
\* an error string contributes no step, so the stored sequence is the
\* successful step sequence of the run.
C31_StepsAreSuccesses ==
    [][Len(current_execution_path') > Len(current_execution_path) =>
          ~IsErrorString(retry'.last.value)]_vars

\* stats[tool_name]["total"], 0 for a tool without an entry
TotalOf(stats, tool_name) ==
    IF \E i \in DOMAIN stats : stats[i].tool = tool_name
    THEN stats[CHOOSE i \in DOMAIN stats : stats[i].tool = tool_name].total
    ELSE 0

\* C32: with tool tracking enabled, the tracker is updated after every
\* execution attempt: a tool call for which the retryable executor made k
\* attempts (including attempts that ended in a gate denial or an argument
\* error) increases that tool's total counter by exactly k; each attempt that
\* returned a result adds one.
C32_EveryAttemptCounted ==
    [][(pc = "dispatch" /\ retry'.last.outcome = "return") =>
          TotalOf(tool_stats', NameStr[retry'.call.name]) =
             TotalOf(tool_stats, NameStr[retry'.call.name]) + 1]_vars

(***************************************************************************)
(* Claims about the reliability ranking (SpecSearch)                       *)
(***************************************************************************)
\* the place of tool_name in the dictionary stats: the order of first record
PlaceOf(stats, tool_name) == CHOOSE i \in DOMAIN stats : stats[i].tool = tool_name

\* ranking lists exactly the tools of stats with at least MinRanked
\* executions, each once and with its success rate, by rate descending, and
\* tools of equal rate in the order of their first record
RankedStable(stats, ranking) ==
    /\ \A i \in DOMAIN stats :
          Cardinality({k \in DOMAIN ranking : ranking[k].tool = stats[i].tool})
             = IF stats[i].total >= MinRanked THEN 1 ELSE 0
    /\ \A k \in DOMAIN ranking :
          /\ \E i \in DOMAIN stats : stats[i].tool = ranking[k].tool
          /\ ranking[k].success_rate = stats[PlaceOf(stats, ranking[k].tool)].success_rate
    /\ \A k, l \in DOMAIN ranking :
          k < l =>
             /\ FracGeq(ranking[k].success_rate, ranking[l].success_rate)
             /\ ranking[k].success_rate = ranking[l].success_rate
                   => PlaceOf(stats, ranking[k].tool) < PlaceOf(stats, ranking[l].tool)

\* C33: the reliability ranking lists the tools with at least 3 recorded
\* attempts in non-increasing order of success rate, and tools with equal
\* success rate appear in the order in which they were first recorded.
C33_RankingStable ==
    (query_in.op = "get_reliability_ranking" /\ query_out.done)
       => RankedStable(tool_stats, query_out.value)

\* a ranking of three tools of which two tie, next to a tool with too few
\* executions
C33_Witness ==
    /\ query_in.op = "get_reliability_ranking"
    /\ query_out.done
    /\ Len(tool_stats) = 3
    /\ Len(query_out.value) = 2
    /\ query_out.value[1].success_rate = query_out.value[2].success_rate
    /\ query_out.value[1].total # query_out.value[2].total

(***************************************************************************)
(* Claims about the approval cache between tasks (SpecApproval)            *)
(***************************************************************************)
\* C34: after any sequence of approval requests and operator answers, the
\* approval cache only grows (no key is ever removed from the approved set
\* or the denied set, also not by Agent.clear_history), and no key is in
\* both the approved set and the denied set.
C34_CacheOnlyGrows ==
    [][/\ approved_operations \subseteq approved_operations'
       /\ denied_operations \subseteq denied_operations'
       /\ approved_operations' \cap denied_operations' = {}]_vars

\* the history was cleared while both sets held a decision
C34_Witness ==
    /\ approved_operations # {}
    /\ denied_operations # {}
    /\ messages = <<>>
    /\ last_tool_output = <<>>

(***************************************************************************)
(* Claims about the task record of a call of execute (Spec)                *)
(***************************************************************************)
\* C35: with evaluation enabled, whenever execute returns (final answer,
\* error string, interrupt, max-iterations, or an empty model response with
\* no choices), the task it started has been finalized: the evaluator has no
\* in-flight task and exactly one record for that call was appended to the
\* execution history.
C35_ReturnedTaskFinalized ==
    (config.enable_evaluation /\ pc = "returned")
       => /\ current_execution = NoExecution
          /\ Len(executions_history) = 1

(***************************************************************************)
(* Claims about the order of the conversation (Spec)                       *)
(***************************************************************************)
\* the message at place i + j is the result of the j-th tool call of the
\* assistant message at place i
IsResultOf(i, j) ==
    /\ messages[i + j].role = "tool"
    /\ messages[i + j].tool_call_id = messages[i].tool_calls[j]

\* C36: in the conversation, an assistant message that carries k tool calls
\* is followed immediately by the k tool-result messages of those calls: no
\* other message (such as a reflection message) is placed between the
\* assistant message and its tool results, and whenever a model request is
\* sent every earlier tool call has its tool-result message.
C36_ResultsFollowCalls ==
    \A i \in DOMAIN messages :
       \A j \in DOMAIN messages[i].tool_calls :
          /\ i + j <= Len(messages) => IsResultOf(i, j)
          /\ pc = "request" => i + j <= Len(messages)

(***************************************************************************)
(* Claims about the tracker next to the retry executor (Spec)              *)
(***************************************************************************)
\* the counter field of tool_name in the dictionary stats, 0 without an entry
CounterOf(stats, tool_name, field) ==
    IF \E i \in DOMAIN stats : stats[i].tool = tool_name
    THEN stats[CHOOSE i \in DOMAIN stats : stats[i].tool = tool_name][field]
    ELSE 0

\* the executor takes the attempt rec for a failure: it reflects on it and
\* goes on to the next attempt, if there is one
ClassifiedFailure(rec) ==
    /\ config.enable_retry
    /\ rec.outcome = "return"
    /\ _should_reflect_on_output(config, rec.value)

\* C37: the tracker and the retry executor agree on outcomes: every attempt
\* that the retry executor classifies as a failure (its result contains a
\* failure keyword, so it is reflected on and retried) is recorded by the
\* tool tracker as a failed execution, and every attempt recorded as
\* successful is one the executor returns without retrying.
C37_TrackerAgreesWithExecutor ==
    [][pc = "dispatch" =>
          /\ ClassifiedFailure(retry'.last) =>
                CounterOf(tool_stats', NameStr[retry'.call.name], "failed")
                   = CounterOf(tool_stats, NameStr[retry'.call.name], "failed") + 1
          /\ CounterOf(tool_stats', NameStr[retry'.call.name], "successful")
                = CounterOf(tool_stats, NameStr[retry'.call.name], "successful") + 1
                => ~ClassifiedFailure(retry'.last)]_vars

(***************************************************************************)
(* Claims about the key of the approval cache (SpecApproval)               *)
(***************************************************************************)
\* request k of the log was decided without a prompt, and an earlier request
\* with the same (operation, details) pair was answered with answer
DecidedBySamePair(k, answer) ==
    \E j \in 1..(k - 1) :
       /\ approval_log[j].operation = approval_log[k].operation
       /\ approval_log[j].details = approval_log[k].details
       /\ approval_log[j].prompted
       /\ approval_log[j].answer = answer

\* C38: prompt_approval returns approved without prompting only for a request
\* whose (operation, details) pair is identical to one the operator earlier
\* answered 'always' to: an always-approval (or a cached denial) given for one
\* pair never decides a request with a different pair, also when the details
\* are longer than the cache key bound.
C38_DecisionsPerPair ==
    \A k \in DOMAIN approval_log :
       ~approval_log[k].prompted =>
          IF approval_log[k].result
          THEN DecidedBySamePair(k, "always")
          ELSE DecidedBySamePair(k, "no")


(***************************************************************************)
(* Claims about two trackers on one directory (SpecTrackers)               *)
(***************************************************************************)
\* C39: when two ToolTracker instances opened on the same directory each
\* record executions (their record calls interleaved in any order, each write
\* serialized), the persisted statistics afterwards account for every
\* recorded attempt: for each tool the persisted total equals the number of
\* record calls made for it by both instances.
C39_PersistedCountsAll ==
    \A t \in TrackedTools :
       TotalOf(_load_stats(stats_file), NameStr[t])
          = recorded[t].successful + recorded[t].failed

(***************************************************************************)
(* Claims about the termination of execute (SpecLive)                      *)
(***************************************************************************)
\* no request, tool, prompt or sleep of the call is interrupted by the
\* operator: each of them returns
NothingInterrupted == outcome \notin {"interrupted", "KeyboardInterrupt"}

\* execute has returned a final answer, the max-iterations warning or an
\* error string
ReturnedAnswer ==
    /\ pc = "returned"
    /\ outcome \in {"final", "max_iterations", "error", "no_response"}

\* the main loop made at most MAX_ITERATIONS requests and the call in hand at
\* most max_retries attempts
BoundedWork ==
    /\ iteration <= MAX_ITERATIONS
    /\ retry.status # "none" =>
          retry.attempts <= retry_config(retry.call.name).max_retries

\* C40: provided every completion request, tool execution, operator prompt
\* and backoff wait returns, every execute call eventually returns: it ends
\* in exactly one of final answer, max-iterations warning or error string
\* after at most 50 main-loop model requests, with each tool call making a
\* bounded number of attempts.
C40_ExecuteReturns ==
    /\ []BoundedWork
    /\ []NothingInterrupted => <>ReturnedAnswer
====
